---- MODULE Spec2Model ----
(***************************************************************************)
(* A model of the type system of graphqllib                               *)
(* (graphql/core/type/definition.py) and of the schema assembler that is  *)
(* built on it.                                                           *)
(*                                                                         *)
(* The module holds several specifications over one set of variables:     *)
(*   SpecTypes   type values, the List / NonNull constructors and the     *)
(*               pure predicates on types;                                *)
(*   Spec        construction of Interface / Object / Union types, the    *)
(*               implementor registry, is_possible_type, resolve_type;    *)
(*   SpecFields  lazy resolution of field maps (get_fields);              *)
(*   SpecSchema  the schema build: reachability, unique names, interface  *)
(*               conformance.                                             *)
(* A specification leaves the variables of the others at their initial    *)
(* value.                                                                  *)
(***************************************************************************)
EXTENDS Integers, Sequences, FiniteSets, TLC

VARIABLES
    \* ---- SpecTypes
    ta,         \* a type value under construction
    tb,         \* a second type value
    baseA,      \* the named value the construction of ta started from
    tres,       \* the outcome of the last operation on ta / tb
    \* ---- Spec
    heap,       \* the constructed types, in construction order (index = identity)
    rres,       \* the outcome of the last operation of Spec
    \* ---- SpecFields
    fobjs,      \* the Field / Argument / InputField objects (index = identity)
    authored,   \* the objects the schema author made, as they were made
    ftypes,     \* the types whose field maps are resolved
    fres,       \* the outcome of the last get_fields()
    \* ---- SpecSchema
    sgraph,     \* the type graph the schema is built from
    sbuild,     \* the state of the schema build
    \* ---- SpecBridge
    deferreds,  \* the Deferred instances, in creation order (index = identity)
    futures,    \* the asyncio futures, in creation order (index = identity)
    ready,      \* the event loop's queue of scheduled done-callbacks
    fired,      \* the continuations that have fired, in firing order
    bres        \* the outcome of the last operation of SpecBridge

varsTypes  == <<ta, tb, baseA, tres>>
varsReg    == <<heap, rres>>
varsFields == <<fobjs, authored, ftypes, fres>>
varsSchema == <<sgraph, sbuild>>
varsBridge == <<deferreds, futures, ready, fired, bres>>
vars == <<ta, tb, baseA, tres, heap, rres, fobjs, authored, ftypes, fres,
          sgraph, sbuild, deferreds, futures, ready, fired, bres>>

(***************************************************************************)
(* Bounds                                                                  *)
(***************************************************************************)
\* the deepest nesting of List / NonNull wrappers SpecTypes builds
MaxWrap == 2

(***************************************************************************)
(* Type values.  A named type is a record with its class (kind), its name *)
(* and its object identity (id); a wrapper holds the wrapped value.       *)
(***************************************************************************)
NamedKinds == {"Scalar", "Object", "Interface", "Union", "Enum", "InputObject"}
WrapperKinds == {"List", "NonNull"}

NamedType(k, n, i) == [kind |-> k, name |-> n, id |-> i]

GraphQLString       == NamedType("Scalar", "String", 1)
FakeString          == NamedType("Scalar", "String", 2)
SomeScalarType      == NamedType("Scalar", "SomeScalar", 3)
SomeEnumType        == NamedType("Enum", "SomeEnum", 4)
SomeObjectType      == NamedType("Object", "SomeObject", 5)
SameNameObject      == NamedType("Object", "SameName", 6)
SameNameInterface   == NamedType("Interface", "SameName", 7)
SomeUnionType       == NamedType("Union", "SomeUnion", 8)
SomeInputObjectType == NamedType("InputObject", "SomeInputObject", 9)
\* a Python value that is no GraphQLType (the tests use the class str)
NotAType            == NamedType("PyClass", "str", 10)

NamedTypes == {GraphQLString, FakeString, SomeScalarType, SomeEnumType,
               SomeObjectType, SameNameObject, SameNameInterface,
               SomeUnionType, SomeInputObjectType}

IsGraphQLType(t) == t.kind \in NamedKinds \cup WrapperKinds

RECURSIVE WrapDepth(_)
WrapDepth(t) == IF t.kind \in WrapperKinds THEN 1 + WrapDepth(t.of_type) ELSE 0

\* definition.py:44-48
RECURSIVE get_named_type(_)
get_named_type_once(type) ==
    IF type.kind \in WrapperKinds THEN type.of_type ELSE type
get_named_type(type) ==
    IF type.kind \in WrapperKinds THEN get_named_type(type.of_type) ELSE type

\* definition.py:7-13
is_input_type(type) ==
    get_named_type(type).kind \in {"Scalar", "Enum", "InputObject"}

\* definition.py:16-24
is_output_type_unchecked(type) == TRUE
is_output_type(type) ==
    get_named_type(type).kind \in {"Scalar", "Object", "Interface", "Union", "Enum"}

RECURSIVE is_same_type(_, _)

\* definition.py:61-62
GraphQLType_is_same_type_class_only(self, other) ==
    self.kind = other.kind
GraphQLType_is_same_type(self, other) ==
    self.kind = other.kind /\ self.name = other.name

\* definition.py:545-546
GraphQLList_is_same_type(self, other) ==
    other.kind = "List" /\ is_same_type(self.of_type, other.of_type)

\* definition.py:574-575
GraphQLNonNull_is_same_type_shallow(self, other) ==
    other.kind = "NonNull"
GraphQLNonNull_is_same_type(self, other) ==
    other.kind = "NonNull" /\ is_same_type(self.of_type, other.of_type)

\* method dispatch on the class of self
is_same_type(self, other) ==
    CASE self.kind = "List"    -> GraphQLList_is_same_type(self, other)
      [] self.kind = "NonNull" -> GraphQLNonNull_is_same_type(self, other)
      [] OTHER                 -> GraphQLType_is_same_type(self, other)

\* definition.py:537-540: the value GraphQLList(type) builds, ok = FALSE
\* when the constructor's assertion fails
GraphQLList(type) ==
    IF IsGraphQLType(type)
    THEN [ok |-> TRUE, value |-> [kind |-> "List", of_type |-> type]]
    ELSE [ok |-> FALSE, value |-> type]

\* definition.py:566-569
GraphQLNonNull_of_any_type(type) ==
    IF IsGraphQLType(type)
    THEN [ok |-> TRUE, value |-> [kind |-> "NonNull", of_type |-> type]]
    ELSE [ok |-> FALSE, value |-> type]
GraphQLNonNull(type) ==
    IF IsGraphQLType(type) /\ type.kind # "NonNull"
    THEN [ok |-> TRUE, value |-> [kind |-> "NonNull", of_type |-> type]]
    ELSE [ok |-> FALSE, value |-> type]

(***************************************************************************)
(* SpecTypes                                                               *)
(***************************************************************************)
NoTRes == [op |-> "none", ok |-> TRUE, val |-> FALSE]

InitTypesIdle ==
    /\ ta = GraphQLString /\ tb = GraphQLString
    /\ baseA = GraphQLString /\ tres = NoTRes

InitRegIdle    == heap = <<>> /\ rres = [op |-> "none"]
InitFieldsIdle ==
    fobjs = <<>> /\ authored = <<>> /\ ftypes = <<>> /\ fres = [op |-> "none"]
InitSchemaIdle == sgraph = <<>> /\ sbuild = [pc |-> "idle"]
InitBridgeIdle ==
    /\ deferreds = <<>> /\ futures = <<>> /\ ready = <<>> /\ fired = <<>>
    /\ bres = [op |-> "none"]

InitTypes ==
    /\ ta \in NamedTypes \cup {NotAType}
    /\ tb \in NamedTypes
    /\ baseA = ta
    /\ tres = NoTRes
    /\ InitRegIdle /\ InitFieldsIdle /\ InitSchemaIdle /\ InitBridgeIdle

\* ta = GraphQLList(ta)
MkListA ==
    /\ WrapDepth(ta) < MaxWrap
    /\ LET r == GraphQLList(ta) IN
         /\ ta' = r.value
         /\ tres' = [op |-> "GraphQLList", ok |-> r.ok, val |-> FALSE]
    /\ UNCHANGED <<tb, baseA>>

\* ta = GraphQLNonNull(ta)
MkNonNullA ==
    /\ WrapDepth(ta) < MaxWrap
    /\ LET r == GraphQLNonNull(ta) IN
         /\ ta' = r.value
         /\ tres' = [op |-> "GraphQLNonNull", ok |-> r.ok, val |-> FALSE]
    /\ UNCHANGED <<tb, baseA>>

\* tb = GraphQLList(tb)
MkListB ==
    /\ WrapDepth(tb) < MaxWrap
    /\ LET r == GraphQLList(tb) IN
         /\ tb' = r.value
         /\ tres' = [op |-> "GraphQLList", ok |-> r.ok, val |-> FALSE]
    /\ UNCHANGED <<ta, baseA>>

\* tb = GraphQLNonNull(tb)
MkNonNullB ==
    /\ WrapDepth(tb) < MaxWrap
    /\ LET r == GraphQLNonNull(tb) IN
         /\ tb' = r.value
         /\ tres' = [op |-> "GraphQLNonNull", ok |-> r.ok, val |-> FALSE]
    /\ UNCHANGED <<ta, baseA>>

\* ta.is_same_type(tb)
IsSameTypeAB ==
    /\ IsGraphQLType(ta)
    /\ tres' = [op |-> "is_same_type", ok |-> TRUE, val |-> is_same_type(ta, tb)]
    /\ UNCHANGED <<ta, tb, baseA>>

\* tb.is_same_type(ta)
IsSameTypeBA ==
    /\ IsGraphQLType(ta)
    /\ tres' = [op |-> "is_same_type_rev", ok |-> TRUE, val |-> is_same_type(tb, ta)]
    /\ UNCHANGED <<ta, tb, baseA>>

\* is_input_type(ta)
IsInputType ==
    /\ tres' = [op |-> "is_input_type", ok |-> TRUE, val |-> is_input_type(ta)]
    /\ UNCHANGED <<ta, tb, baseA>>

\* is_output_type(ta)
IsOutputType ==
    /\ tres' = [op |-> "is_output_type", ok |-> TRUE, val |-> is_output_type(ta)]
    /\ UNCHANGED <<ta, tb, baseA>>

NextTypes ==
    /\ \/ MkListA
       \/ MkNonNullA
       \/ MkListB
       \/ MkNonNullB
       \/ IsSameTypeAB
       \/ IsSameTypeBA
       \/ IsInputType
       \/ IsOutputType
    /\ UNCHANGED <<varsReg, varsFields, varsSchema, varsBridge>>

SpecTypes == InitTypes /\ [][NextTypes]_vars

(***************************************************************************)
(* Properties of SpecTypes                                                 *)
(***************************************************************************)
\* The structure of a type value without object identities: the wrappers
\* from the outside in, then the class and the name of the named type.
RECURSIVE Shape(_)
Shape(t) ==
    IF t.kind \in WrapperKinds THEN <<t.kind>> \o Shape(t.of_type)
    ELSE <<t.kind, t.name>>

\* C3: a.is_same_type(b) is true exactly when a and b have the same
\* variant, the same name when they are named and is_same_type wrapped
\* types when they are List or NonNull, whatever the identity of the
\* objects and whatever the argument order; String and NonNull(String),
\* and List(String) and NonNull(List(String)), are never the same.
C3_SameTypeIsStructural ==
    /\ tres.op = "is_same_type" => tres.val = (Shape(ta) = Shape(tb))
    /\ tres.op = "is_same_type_rev" => tres.val = (Shape(ta) = Shape(tb))
    /\ ( /\ tres.op \in {"is_same_type", "is_same_type_rev"}
         /\ (\E x \in {ta, tb}, y \in {ta, tb} :
               \/ x.kind = "NonNull" /\ x.of_type = y
               \/ x.kind = "List" /\ y.kind = "NonNull") )
       => tres.val = FALSE

\* two different objects, wrapped, were found to be the same type
C3_Witness ==
    /\ tres.op = "is_same_type_rev" /\ tres.val
    /\ ta.kind = "NonNull" /\ ta.of_type.kind = "List"
    /\ ta # tb

\* C4: is_input_type(t) holds iff the named type t was built from is a
\* Scalar, Enum or InputObject, and is_output_type(t) iff it is a Scalar,
\* Object, Interface, Union or Enum, whatever the wrappers; so no wrapped
\* or bare Object, Interface or Union is an input type and no InputObject
\* an output type.
C4_Classification ==
    /\ tres.op = "is_input_type" =>
         /\ tres.val = (baseA.kind \in {"Scalar", "Enum", "InputObject"})
         /\ baseA.kind \in {"Object", "Interface", "Union"} => ~tres.val
    /\ tres.op = "is_output_type" =>
         /\ tres.val = (baseA.kind \in {"Scalar", "Object", "Interface", "Union", "Enum"})
         /\ baseA.kind = "InputObject" => ~tres.val

\* a doubly wrapped InputObject was classified as an input type
C4_Witness ==
    /\ tres.op = "is_input_type" /\ tres.val
    /\ baseA.kind = "InputObject" /\ WrapDepth(ta) = 2

(***************************************************************************)
(* Spec: construction of Interface, Object and Union types.  heap[i] is   *)
(* the i-th type that was constructed; a type is referred to by its index *)
(* and 0 stands for None.  Interfaces are constructed before the Object    *)
(* types, which are constructed before the Unions, and a run constructs   *)
(* Interfaces or Unions, not both.                                         *)
(***************************************************************************)
\* the most types Spec constructs
MaxTypes == 3
\* the runtime values resolve_type is asked about
Values == {1, 2}
\* the k-th constructed type, when an Interface or a Union, is named Ik / Uk
InterfaceName(id) == "I" \o ToString(id)
UnionName(id) == "U" \o ToString(id)
ObjectNames == {"A", "B"}

\* a resolve_type= / is_type_of= argument: absent (None), or a function
NoFn == [present |-> FALSE, callable |-> FALSE, accepts |-> {}]
\* the is_type_of function an Object type may be given recognises the
\* values of its runtime class: for A the value 1, for B the values 1 and 2
IsTypeOfFn(name) ==
    [present |-> TRUE, callable |-> TRUE,
     accepts |-> IF name = "A" THEN {1} ELSE Values]
\* one resolve_type function: value v is resolved to the v-th constructed
\* type, to None when there is none
ResolveFn == [present |-> TRUE, callable |-> TRUE, accepts |-> {}]
\* an is_type_of= argument that is truthy and no function
NotCallable == [present |-> TRUE, callable |-> FALSE, accepts |-> {}]
TypeResolverApply(h, value) == IF value \in 1 .. Len(h) THEN value ELSE 0

NoErr == [kind |-> "none", abstract |-> "", member |-> ""]
Err(k, a, m) == [kind |-> k, abstract |-> a, member |-> m]

NoMemo == [cached |-> FALSE, names |-> {}]

Elems(seq) == {seq[i] : i \in 1 .. Len(seq)}

IdsOfKind(h, k) == {i \in 1 .. Len(h) : h[i].kind = k}

\* the lists over S that name each element at most once, in any order,
\* and the lists <<x, x>>
ListsOver(S) ==
    {l \in UNION {[1 .. k -> S] : k \in 0 .. Cardinality(S)} :
        \A i, j \in 1 .. Len(l) : i # j => l[i] # l[j]}
    \cup {<<x, x>> : x \in S}

\* an interfaces= argument: None, a list / tuple, something else (the
\* tests give a dict), or a function returning one of these
ProvidedInterfaces(h) ==
    {[callable |-> c, shape |-> "None", items |-> <<>>] : c \in BOOLEAN}
    \cup {[callable |-> c, shape |-> "dict", items |-> <<>>] : c \in BOOLEAN}
    \cup {[callable |-> c, shape |-> "list", items |-> l] :
             c \in BOOLEAN, l \in ListsOver(IdsOfKind(h, "Interface"))}
    \cup {[callable |-> FALSE, shape |-> "list", items |-> l] :
             l \in {<<o>> : o \in IdsOfKind(h, "Object")}
                   \cup (IdsOfKind(h, "Interface") \X IdsOfKind(h, "Object"))}

\* definition.py:181-190: the loop of define_interfaces from entry k on
RECURSIVE define_interfaces_loop(_, _, _, _, _)
define_interfaces_loop(h, name, is_type_of, items, k) ==
    IF k > Len(items) THEN NoErr
    ELSE LET iface == h[items[k]] IN
         IF iface.kind # "Interface"
         THEN Err("may only implement Interface types", iface.name, name)
         ELSE IF ~iface.type_resolver.present /\ ~is_type_of.present
         THEN Err("Interface does not provide resolve_type and implementing Type no is_type_of",
                  iface.name, name)
         ELSE define_interfaces_loop(h, name, is_type_of, items, k + 1)

\* definition.py:174-191
define_interfaces_no_producer(h, name, is_type_of, interfaces) ==
    IF interfaces.callable \/ interfaces.shape = "None"
    THEN [err |-> NoErr, value |-> <<>>]
    ELSE IF interfaces.shape # "list"
    THEN [err |-> Err("interfaces must be an list/tuple", "", name), value |-> <<>>]
    ELSE [err |-> define_interfaces_loop(h, name, is_type_of, interfaces.items, 1),
          value |-> interfaces.items]
define_interfaces(h, name, is_type_of, interfaces) ==
    IF interfaces.shape = "None"
    THEN [err |-> NoErr, value |-> <<>>]
    ELSE IF interfaces.shape # "list"
    THEN [err |-> Err("interfaces must be an list/tuple", "", name), value |-> <<>>]
    ELSE [err |-> define_interfaces_loop(h, name, is_type_of, interfaces.items, 1),
          value |-> interfaces.items]

\* definition.py:232-234: impl, the type being constructed, gets index id
RECURSIVE add_impl_to_interfaces_loop(_, _, _, _)
add_impl_to_interfaces_loop(h, id, ifaces, k) ==
    IF k > Len(ifaces) THEN h
    ELSE add_impl_to_interfaces_loop(
             [h EXCEPT ![ifaces[k]]._impls = Append(@, id)], id, ifaces, k + 1)

add_impl_to_interfaces_prepend(h, id, ifaces) ==
    [i \in 1 .. Len(h) |->
        IF h[i].kind = "Interface" /\ i \in Elems(ifaces)
        THEN [h[i] EXCEPT !._impls = <<id>> \o @] ELSE h[i]]
add_impl_to_interfaces_nowhere(h, id, ifaces) == h
add_impl_to_interfaces(h, id, ifaces) ==
    add_impl_to_interfaces_loop(h, id, ifaces, 1)

\* definition.py:269-281
GraphQLInterfaceType(name, resolve_type) ==
    [kind |-> "Interface", name |-> name, type_resolver |-> resolve_type,
     _impls |-> <<>>, _possible_type_names |-> NoMemo]

NewInterface ==
    /\ Len(heap) < MaxTypes
    /\ IdsOfKind(heap, "Object") = {}
    /\ \E resolve_type \in {NoFn, ResolveFn} :
         /\ heap' = Append(heap, GraphQLInterfaceType(InterfaceName(Len(heap) + 1),
                                                      resolve_type))
         /\ rres' = [op |-> "GraphQLInterfaceType", err |-> NoErr]

\* definition.py:149-161: h is the heap before the call, heap the heap
\* after it.  declared is the list the interfaces= argument stands for,
\* kept beside the object's own _interfaces.
GraphQLObjectType_init_registers_first(h, name, is_type_of, interfaces) ==
    LET r  == define_interfaces(h, name, is_type_of, interfaces)
        id == Len(h) + 1
        o  == [kind |-> "Object", name |-> name, is_type_of |-> is_type_of,
               _interfaces |-> r.value, declared |-> interfaces.items]
        registered == add_impl_to_interfaces(
                          h, id, SelectSeq(interfaces.items,
                                           LAMBDA i : h[i].kind = "Interface"))
    IN  IF name = "" THEN [err |-> Err("Type must be named", "", name), heap |-> registered]
        ELSE IF is_type_of.present /\ ~is_type_of.callable
        THEN [err |-> Err("must provide is_type_of as a function", "", name),
              heap |-> registered]
        ELSE IF r.err # NoErr THEN [err |-> r.err, heap |-> registered]
        ELSE [err |-> NoErr, heap |-> Append(registered, o)]

GraphQLObjectType_init(h, name, is_type_of, interfaces) ==
    IF name = "" THEN [err |-> Err("Type must be named", "", name), heap |-> h]
    ELSE IF is_type_of.present /\ ~is_type_of.callable
    THEN [err |-> Err("must provide is_type_of as a function", "", name),
          heap |-> h]
    ELSE LET r  == define_interfaces(h, name, is_type_of, interfaces)
             id == Len(h) + 1
             o  == [kind |-> "Object", name |-> name, is_type_of |-> is_type_of,
                    _interfaces |-> r.value, declared |-> interfaces.items]
         IN  IF r.err # NoErr THEN [err |-> r.err, heap |-> h]
             ELSE [err |-> NoErr,
                   heap |-> Append(add_impl_to_interfaces(h, id, r.value), o)]

\* The arguments of a construction: a valid name and an is_type_of that is
\* a function or absent, with every interfaces= argument; or an empty name
\* or an is_type_of that is no function, with a list of interfaces.
ObjectArguments(h) ==
    UNION {{<<name, is_type_of, interfaces>> :
                is_type_of \in {NoFn, IsTypeOfFn(name)},
                interfaces \in ProvidedInterfaces(h)} : name \in ObjectNames}
    \cup {<<a[1], a[2], interfaces>> :
             a \in {<<"", IsTypeOfFn("")>>, <<"A", NotCallable>>},
             interfaces \in {i \in ProvidedInterfaces(h) :
                                 ~i.callable /\ i.shape = "list"}}

NewObject ==
    /\ Len(heap) < MaxTypes
    /\ IdsOfKind(heap, "Union") = {}
    /\ \E a \in ObjectArguments(heap) :
         LET name == a[1]
             is_type_of == a[2]
             interfaces == a[3]
             r == GraphQLObjectType_init(heap, name, is_type_of, interfaces)
         IN /\ rres' = [op |-> "GraphQLObjectType", err |-> r.err, name |-> name,
                        is_type_of |-> is_type_of, interfaces |-> interfaces]
            /\ heap' = r.heap

\* definition.py:339-348: the loop of GraphQLUnionType.__init__
RECURSIVE union_types_loop(_, _, _, _, _)
union_types_loop(h, name, resolve_type, types, k) ==
    IF k > Len(types) THEN NoErr
    ELSE LET type == h[types[k]] IN
         IF type.kind # "Object"
         THEN Err("may only contain Object types", name, type.name)
         ELSE IF ~resolve_type.present /\ ~type.is_type_of.present
         THEN Err("Union does not provide resolve_type and possible Type no is_type_of",
                  name, type.name)
         ELSE union_types_loop(h, name, resolve_type, types, k + 1)

\* definition.py:329-350
GraphQLUnionType_init_unchecked(h, name, types, resolve_type) ==
    IF types = <<>> THEN Err("Must provide types for Union", name, "")
    ELSE NoErr
GraphQLUnionType_init(h, name, types, resolve_type) ==
    IF types = <<>> THEN Err("Must provide types for Union", name, "")
    ELSE union_types_loop(h, name, resolve_type, types, 1)

NewUnion ==
    /\ Len(heap) < MaxTypes
    /\ IdsOfKind(heap, "Interface") = {}
    /\ \E resolve_type \in {NoFn, ResolveFn},
          types \in ListsOver(IdsOfKind(heap, "Object")) :
         LET name == UnionName(Len(heap) + 1)
             err == GraphQLUnionType_init(heap, name, types, resolve_type)
             u   == [kind |-> "Union", name |-> name, _resolve_type |-> resolve_type,
                     _types |-> types, declared |-> types,
                     _possible_type_names |-> NoMemo]
         IN /\ rres' = [op |-> "GraphQLUnionType", err |-> err, name |-> name,
                        resolve_type |-> resolve_type, types |-> types]
            /\ heap' = IF err = NoErr THEN Append(heap, u) ELSE heap

IsAbstract(t) == t.kind \in {"Interface", "Union"}

\* definition.py:288-289, 352-353
get_possible_types(t) == IF t.kind = "Interface" THEN t._impls ELSE t._types

\* definition.py:291-296, 355-360: the memo after the call
possible_type_names(h, t) ==
    IF ~t._possible_type_names.cached
    THEN [cached |-> TRUE,
          names |-> {h[i].name : i \in Elems(get_possible_types(t))}]
    ELSE t._possible_type_names

\* self.is_possible_type(type)
IsPossibleType ==
    \E self \in 1 .. Len(heap), type \in 1 .. Len(heap) :
        /\ IsAbstract(heap[self])
        /\ LET memo == possible_type_names(heap, heap[self]) IN
             /\ heap' = [heap EXCEPT ![self]._possible_type_names = memo]
             /\ rres' = [op |-> "is_possible_type", self |-> self, type |-> type,
                         val |-> heap[type].name \in memo.names]

\* definition.py:304-308: the scan from position k on; 0 is None
RECURSIVE get_type_of_loop(_, _, _, _)
get_type_of_loop(h, value, possible_types, k) ==
    IF k > Len(possible_types) THEN 0
    ELSE LET type == h[possible_types[k]] IN
         IF type.is_type_of.present /\ value \in type.is_type_of.accepts
         THEN possible_types[k]
         ELSE get_type_of_loop(h, value, possible_types, k + 1)

get_type_of(h, value, abstract_type) ==
    get_type_of_loop(h, value, get_possible_types(abstract_type), 1)

\* definition.py:298-301, 362-365
TypeResolverOf(t) == IF t.kind = "Interface" THEN t.type_resolver ELSE t._resolve_type
resolve_type(h, t, value) ==
    IF TypeResolverOf(t).present THEN TypeResolverApply(h, value)
    ELSE get_type_of(h, value, t)

\* self.resolve_type(value)
ResolveType ==
    \E self \in 1 .. Len(heap), value \in Values :
        /\ IsAbstract(heap[self])
        /\ rres' = [op |-> "resolve_type", self |-> self, value |-> value,
                    val |-> resolve_type(heap, heap[self], value)]
        /\ UNCHANGED heap

Init ==
    /\ heap = <<>>
    /\ rres = [op |-> "none"]
    /\ InitTypesIdle /\ InitFieldsIdle /\ InitSchemaIdle /\ InitBridgeIdle

Next ==
    /\ \/ NewInterface
       \/ NewObject
       \/ NewUnion
       \/ IsPossibleType
       \/ ResolveType
    /\ UNCHANGED <<varsTypes, varsFields, varsSchema, varsBridge>>

Spec == Init /\ [][Next]_vars

(***************************************************************************)
(* SpecFields: lazy resolution of field maps.  A name is the sequence of  *)
(* its characters.  fobjs[i] is the i-th Field / Argument object made, by *)
(* the schema author or by copy.copy; a dict is the sequence of its       *)
(* (key, object) items.                                                    *)
(***************************************************************************)
\* the most fields a fields mapping of the model holds
MaxFields == 2
\* the most arguments an args mapping of the model holds
MaxArgs == 2
\* the most failing get_fields() calls on one type
MaxCalls == 2

Letters == {"a", "b", "c", "d", "e", "f", "g", "h", "i", "j", "k", "l", "m",
            "n", "o", "p", "q", "r", "s", "t", "u", "v", "w", "x", "y", "z",
            "A", "B", "C", "D", "E", "F", "G", "H", "I", "J", "K", "L", "M",
            "N", "O", "P", "Q", "R", "S", "T", "U", "V", "W", "X", "Y", "Z"}
Digits == {"0", "1", "2", "3", "4", "5", "6", "7", "8", "9"}
\* the line feed character
LF == "LF"

\* definition.py:65: [_a-zA-Z][_a-zA-Z0-9]* matches all of s
MatchesIdentifier(s) ==
    /\ Len(s) >= 1
    /\ s[1] \in Letters \cup {"_"}
    /\ \A i \in 2 .. Len(s) : s[i] \in Letters \cup Digits \cup {"_"}

\* definition.py:65, 69: NAME_PATTERN.match(name); $ matches at the end
\* of the string and before a line feed that ends the string
NAME_PATTERN_match(name) ==
    \/ MatchesIdentifier(name)
    \/ /\ Len(name) >= 1
       /\ name[Len(name)] = LF
       /\ MatchesIdentifier(SubSeq(name, 1, Len(name) - 1))

\* str(type): definition.py:58-59, 542-543, 571-572
RECURSIVE TypeStr(_)
TypeStr(t) ==
    CASE t.kind = "List"    -> "[" \o TypeStr(t.of_type) \o "]"
      [] t.kind = "NonNull" -> TypeStr(t.of_type) \o "!"
      [] OTHER              -> t.name

NoFErr == [kind |-> "none", owner |-> "", field |-> <<>>, arg |-> <<>>, got |-> ""]
FErr(k, owner, field, arg, got) ==
    [kind |-> k, owner |-> owner, field |-> field, arg |-> arg, got |-> got]

\* definition.py:68-70
assert_valid_name(name) ==
    IF NAME_PATTERN_match(name) THEN NoFErr
    ELSE FErr("Names must match /^[_a-zA-Z][_a-zA-Z0-9]*$/", "", name, <<>>, "")

Unset == <<>>
NoArgs == [shape |-> "None", items |-> <<>>]
Item(k, o) == [key |-> k, obj |-> o]

\* definition.py:237-251, 512-516: a Field, Argument or InputObjectField
\* as its constructor leaves it; copy_of is 0 for an object the author made
GraphQLField(type, args) ==
    [cls |-> "Field", name |-> Unset, type |-> type, args |-> args, copy_of |-> 0]
GraphQLArgument(type) ==
    [cls |-> "Argument", name |-> Unset, type |-> type, args |-> NoArgs, copy_of |-> 0]

\* copy.copy(objs[src]): the objects with the copy added, and the copy's identity
copy_copy_alias(objs, src) == [objs |-> objs, id |-> src]
copy_copy(objs, src) ==
    [objs |-> Append(objs, [objs[src] EXCEPT !.copy_of = src]), id |-> Len(objs) + 1]

\* not field.args: None, an empty dict and an empty list are false
Falsy(args) == args.shape = "None" \/ args.items = <<>>

FieldResult(err, objs, map) == [err |-> err, objs |-> objs, map |-> map]

\* definition.py:219-226: the loop over field.args.items() from item k on;
\* args is the list built so far
RECURSIVE define_args_loop(_, _, _, _, _, _)
define_args_loop(owner, field_name, items, k, objs, args) ==
    IF k > Len(items) THEN FieldResult(NoFErr, objs, args)
    ELSE LET arg_name == items[k].key
             arg == items[k].obj
         IN IF assert_valid_name(arg_name) # NoFErr
            THEN FieldResult(assert_valid_name(arg_name), objs, args)
            ELSE IF ~is_input_type(objs[arg].type)
            THEN FieldResult(FErr("argument type must be Input Type", owner, field_name,
                                  arg_name, TypeStr(objs[arg].type)), objs, args)
            ELSE LET c == copy_copy(objs, arg)
                     named == [c.objs EXCEPT ![c.id].name = arg_name]
                 IN define_args_loop(owner, field_name, items, k + 1, named,
                                     Append(args, Item(<<>>, c.id)))

\* definition.py:207-229: the loop over fields.items() from item k on
RECURSIVE define_field_map_loop(_, _, _, _, _)
define_field_map_loop(owner, items, k, objs, field_map) ==
    IF k > Len(items) THEN FieldResult(NoFErr, objs, field_map)
    ELSE LET field_name == items[k].key
             c == copy_copy(objs, items[k].obj)
             field == c.id
             named == [c.objs EXCEPT ![field].name = field_name]
             fargs == named[field].args
         IN IF assert_valid_name(field_name) # NoFErr
            THEN FieldResult(assert_valid_name(field_name), objs, field_map)
            ELSE IF ~is_output_type(named[field].type)
            THEN FieldResult(FErr("field type must be Output Type", owner, field_name, <<>>,
                                  TypeStr(named[field].type)), named, field_map)
            ELSE IF Falsy(fargs)
            THEN define_field_map_loop(owner, items, k + 1,
                     [named EXCEPT ![field].args = [shape |-> "list", items |-> <<>>]],
                     Append(field_map, Item(field_name, field)))
            ELSE IF fargs.shape # "dict"
            THEN FieldResult(FErr("args must be an mapping (dict) with argument names as keys",
                                  owner, field_name, <<>>, ""), named, field_map)
            ELSE LET a == define_args_loop(owner, field_name, fargs.items, 1, named, <<>>)
                 IN IF a.err # NoFErr THEN FieldResult(a.err, a.objs, field_map)
                    ELSE define_field_map_loop(owner, items, k + 1,
                             [a.objs EXCEPT ![field].args =
                                              [shape |-> "list", items |-> a.map]],
                             Append(field_map, Item(field_name, field)))

FieldsMustBeMapping(owner) ==
    FErr("fields must be an mapping (dict) with field names as keys or a function which returns such an mapping",
         owner, <<>>, <<>>, "")

define_field_map_unchecked(type, fields, objs) ==
    define_field_map_loop(type.name, fields.items, 1, objs, <<>>)
\* definition.py:194-229; fields is what the fields= argument holds or produces
define_field_map(type, fields, objs) ==
    IF fields.shape # "dict" \/ fields.items = <<>>
    THEN FieldResult(FieldsMustBeMapping(type.name), objs, <<>>)
    ELSE define_field_map_loop(type.name, fields.items, 1, objs, <<>>)

\* definition.py:501-509: the loop of GraphQLInputObjectType._define_field_map;
\* the message is formatted with the builtin type, not with self
RECURSIVE input_define_field_map_loop(_, _, _, _)
input_define_field_map_loop(items, k, objs, field_map) ==
    IF k > Len(items) THEN FieldResult(NoFErr, objs, field_map)
    ELSE LET field_name == items[k].key
             c == copy_copy(objs, items[k].obj)
             field == c.id
             named == [c.objs EXCEPT ![field].name = field_name]
         IN IF assert_valid_name(field_name) # NoFErr
            THEN FieldResult(assert_valid_name(field_name), objs, field_map)
            ELSE IF ~is_input_type(named[field].type)
            THEN FieldResult(FErr("field type must be Input Type", "<class 'type'>",
                                  field_name, <<>>, TypeStr(named[field].type)),
                             named, field_map)
            ELSE input_define_field_map_loop(items, k + 1, named,
                                             Append(field_map, Item(field_name, field)))

\* definition.py:489-509
GraphQLInputObjectType_define_field_map(self, fields, objs) ==
    IF fields.shape # "dict" \/ fields.items = <<>>
    THEN FieldResult(FieldsMustBeMapping(self.name), objs, <<>>)
    ELSE input_define_field_map_loop(fields.items, 1, objs, <<>>)

NoFieldMap == [resolved |-> FALSE, map |-> <<>>]

\* definition.py:163-166, 283-286, 484-487.  The result holds the type and
\* the objects after the call; calls counts the invocations of the fields
\* producer and fails the calls that raised.
get_fields_no_memo(type, objs) ==
    LET r == IF type.kind = "InputObject"
             THEN GraphQLInputObjectType_define_field_map(type, type._fields, objs)
             ELSE define_field_map(type, type._fields, objs)
        ok == r.err = NoFErr
    IN [err |-> r.err,
        map |-> r.map,
        objs |-> IF ok THEN r.objs ELSE SubSeq(r.objs, 1, Len(objs)),
        type |-> [type EXCEPT
                    !._field_map = IF ok THEN [resolved |-> TRUE, map |-> r.map] ELSE @,
                    !.calls = IF type._fields.callable THEN @ + 1 ELSE @,
                    !.fails = IF ok THEN @ ELSE @ + 1]]
\* A variant that caches what define_field_map had built when it raised.
get_fields_keeps_partial(type, objs) ==
    IF type._field_map.resolved
    THEN [err |-> NoFErr, map |-> type._field_map.map, objs |-> objs, type |-> type]
    ELSE LET r == get_fields_no_memo(type, objs)
         IN  [r EXCEPT !.type._field_map = [resolved |-> TRUE, map |-> r.map]]
get_fields(type, objs) ==
    IF type._field_map.resolved
    THEN [err |-> NoFErr, map |-> type._field_map.map, objs |-> objs, type |-> type]
    ELSE get_fields_no_memo(type, objs)

\* ftypes[t].get_fields()
GetFields ==
    \E t \in 1 .. Len(ftypes) :
        /\ ftypes[t].fails < MaxCalls
        /\ LET r == get_fields(ftypes[t], fobjs) IN
             /\ fobjs' = r.objs
             /\ ftypes' = [ftypes EXCEPT ![t] = r.type]
             /\ fres' = [op |-> "get_fields", t |-> t, err |-> r.err, map |-> r.map]
        /\ UNCHANGED authored

(***************************************************************************)
(* The types and the Field / Argument objects SpecFields starts from.     *)
(***************************************************************************)
BadName == <<"x", "-", "y">>
FieldKeys == {<<"f">>, <<"g">>, BadName}
\* the argument names, in the order in which the model's args dicts hold them
ArgKeys == <<<<"a">>, <<"b">>, BadName>>

\* the dicts of at most n items with keys from K and objects from O
Dicts(K, O, n) ==
    {d \in UNION {[1 .. k -> {Item(key, o) : key \in K, o \in O}] : k \in 0 .. n} :
        \A i, j \in 1 .. Len(d) : i # j => d[i].key # d[j].key}

\* the dicts of at most n items with keys from the sequence Ks, held in
\* the order of Ks, and objects from O
DictsInOrder(Ks, O, n) ==
    LET Rank(key) == CHOOSE x \in 1 .. Len(Ks) : Ks[x] = key IN
    {d \in UNION {[1 .. k -> {Item(Ks[i], o) : i \in 1 .. Len(Ks), o \in O}] : k \in 0 .. n} :
        \A i, j \in 1 .. Len(d) : i < j => Rank(d[i].key) < Rank(d[j].key)}

\* an args= argument: None, a list, or a dict of the Arguments 1 and 2
ArgsArguments ==
    {NoArgs, [shape |-> "list", items |-> <<>>],
     [shape |-> "list", items |-> <<Item(<<>>, 1)>>]}
    \cup {[shape |-> "dict", items |-> d] : d \in DictsInOrder(ArgKeys, {1, 2}, MaxArgs)}

\* the objects the author made: two Arguments and two Fields
Authored(args3, type4) ==
    <<GraphQLArgument(GraphQLString),
      GraphQLArgument(SomeObjectType),
      GraphQLField(GraphQLString, args3),
      GraphQLField(type4, NoArgs)>>

\* a fields= argument: None, a list, or a dict of the Fields 3 and 4,
\* given as it is or as a function returning it
FieldsArguments ==
    {[callable |-> c, shape |-> sh, items |-> <<>>] :
         c \in BOOLEAN, sh \in {"None", "list"}}
    \cup {[callable |-> c, shape |-> "dict", items |-> d] :
             c \in BOOLEAN, d \in Dicts(FieldKeys, {3, 4}, MaxFields)}

\* an interfaces= argument left at its default, None, and the unset
\* _interfaces of an Object
NoProvidedInterfaces == [callable |-> FALSE, shape |-> "None", items |-> <<>>]
NoInterfaces == [resolved |-> FALSE, value |-> <<>>]

\* definition.py:168-171.  The Objects of this part of the model declare
\* no Interface, so define_interfaces works on the empty list of types;
\* interfaces_calls counts the invocations of the interfaces producer.
get_interfaces_no_memo(type) ==
    LET r == define_interfaces(<<>>, type.name, NoFn, type._provided_interfaces)
    IN  [err |-> r.err, value |-> r.value,
         type |-> [type EXCEPT
                     !._interfaces = IF r.err = NoErr
                                     THEN [resolved |-> TRUE, value |-> r.value]
                                     ELSE @,
                     !.interfaces_calls =
                         IF type._provided_interfaces.callable THEN @ + 1 ELSE @]]
get_interfaces(type) ==
    IF type._interfaces.resolved
    THEN [err |-> NoErr, value |-> type._interfaces.value, type |-> type]
    ELSE get_interfaces_no_memo(type)

\* definition.py:149-161, 269-281, 476-482: the constructors of the types
\* that have fields, called with a valid name.  Only an Object has the
\* attributes of the interfaces; they stay unset on the other kinds.  The
\* last statement of the Object's constructor, add_impl_to_interfaces(self),
\* calls self.get_interfaces().
GraphQLTypeWithFields(kind, name, fields, interfaces) ==
    LET self == [kind |-> kind, name |-> name, _fields |-> fields,
                 _field_map |-> NoFieldMap, calls |-> 0, fails |-> 0,
                 _provided_interfaces |-> interfaces,
                 _interfaces |-> NoInterfaces, interfaces_calls |-> 0]
    IN  IF kind = "Object"
        THEN [err |-> get_interfaces(self).err, type |-> get_interfaces(self).type]
        ELSE [err |-> NoErr, type |-> self]

\* the type as its constructor leaves it when interfaces= is not given
FieldsType(kind, name, fields) ==
    GraphQLTypeWithFields(kind, name, fields, NoProvidedInterfaces).type

UsesObj(fields, o) == \E i \in 1 .. Len(fields.items) : fields.items[i].obj = o

InitFields ==
    /\ \E kind \in {"Object", "Interface", "InputObject"}, fields \in FieldsArguments,
          args3 \in ArgsArguments,
          type4 \in {[kind |-> "NonNull", of_type |-> [kind |-> "List", of_type |-> SomeObjectType]],
                     SomeInputObjectType} :
         /\ ftypes = <<FieldsType(kind, "T1", fields),
                       FieldsType("Object", "T2",
                                  [callable |-> FALSE, shape |-> "dict",
                                   items |-> <<Item(<<"h">>, 3)>>])>>
         /\ authored = Authored(args3, type4)
         \* an attribute of an object that T1 does not use is left at one value
         /\ ~UsesObj(fields, 4) => type4 = SomeInputObjectType
    /\ fobjs = authored
    /\ fres = [op |-> "none"]
    /\ InitTypesIdle /\ InitRegIdle /\ InitSchemaIdle /\ InitBridgeIdle

NextFields ==
    /\ GetFields
    /\ UNCHANGED <<varsTypes, varsReg, varsSchema, varsBridge>>

SpecFields == InitFields /\ [][NextFields]_vars

(***************************************************************************)
(* Properties of SpecFields                                                *)
(***************************************************************************)
\* C5 as stated: over any sequence of get_fields() calls on one instance
\* the fields producer is invoked exactly once.
C5_ProducerRunsOnce ==
    \A t \in 1 .. Len(ftypes) :
        (ftypes[t]._fields.callable /\ fres.op = "get_fields" /\ fres.t = t)
            => ftypes[t].calls = 1

\* C5, amended: every get_fields() call made before one has succeeded
\* invokes the producer once and caches nothing when it fails; the call
\* that succeeds caches the mapping, and from then on the producer is not
\* invoked again and every call returns the cached mapping.
C5_ProducerRunsUntilResolved ==
    /\ [](\A t \in 1 .. Len(ftypes) :
            /\ ftypes[t]._fields.callable =>
                 ftypes[t].calls = ftypes[t].fails
                                     + (IF ftypes[t]._field_map.resolved THEN 1 ELSE 0)
            /\ (fres.op = "get_fields" /\ fres.t = t /\ fres.err = NoFErr) =>
                 /\ ftypes[t]._field_map.resolved
                 /\ fres.map = ftypes[t]._field_map.map)
    /\ [][\A t \in 1 .. Len(ftypes) :
            ftypes[t]._field_map.resolved =>
                /\ ftypes'[t] = ftypes[t]
                /\ (fres'.op = "get_fields" /\ fres'.t = t) =>
                      /\ fres'.err = NoFErr
                      /\ fres'.map = ftypes[t]._field_map.map
                      /\ fobjs' = fobjs]_vars

\* get_fields() was called again on a type that its producer had resolved,
\* the other type having been resolved in between: the call made no object
\* and the producer has run once
C5_Witness ==
    /\ fres.op = "get_fields" /\ fres.err = NoFErr
    /\ ftypes[fres.t]._fields.callable
    /\ ftypes[fres.t].calls = 1
    /\ fobjs[Len(fobjs)].copy_of = 3
    /\ fobjs[Len(fobjs)].name = <<"h">>

\* the field and argument objects a resolved field map holds, with the keys
\* they were resolved under: <<type, field key, argument key, object>>
ResolvedFields ==
    {<<t, ftypes[t]._field_map.map[i].key, <<>>, ftypes[t]._field_map.map[i].obj>> :
        <<t, i>> \in {<<t, i>> \in (1 .. Len(ftypes)) \X (1 .. MaxFields + 1) :
                        i <= Len(ftypes[t]._field_map.map)}}
\* (the fields of an InputObject have no arguments)
ResolvedArgs ==
    UNION {{<<f[1], f[2], fobjs[fobjs[f[4]].copy_of].args.items[k].key,
              fobjs[f[4]].args.items[k].obj>> :
              k \in 1 .. Len(fobjs[f[4]].args.items)} :
           f \in {g \in ResolvedFields : ftypes[g[1]].kind # "InputObject"}}

\* C6: in a resolved field map every field is named by its key and every
\* argument by its argument key; they are copies, one per key, of the
\* objects the author supplied, which are left as they were made.
C6_NamedCopies ==
    /\ \A i \in 1 .. Len(authored) : fobjs[i] = authored[i]
    /\ \A f \in ResolvedFields :
          /\ fobjs[f[4]].name = f[2]
          /\ ftypes[f[1]].kind # "InputObject" =>
                /\ fobjs[f[4]].args.shape = "list"
                /\ LET src == fobjs[fobjs[f[4]].copy_of] IN
                      Len(fobjs[f[4]].args.items) =
                          IF src.args.shape = "dict" THEN Len(src.args.items) ELSE 0
    /\ \A a \in ResolvedArgs : fobjs[a[4]].name = a[3]
    /\ \A x \in ResolvedFields \cup ResolvedArgs :
          /\ x[4] > Len(authored)
          /\ fobjs[x[4]].copy_of \in 1 .. Len(authored)
          /\ \A y \in ResolvedFields \cup ResolvedArgs : x # y => x[4] # y[4]

\* one Field object resolved under two keys of one type and under a key of
\* another type, its one Argument object under two argument keys
C6_Witness ==
    /\ \E f, g \in ResolvedFields :
          /\ f[1] = 1 /\ g[1] = 1 /\ f[2] # g[2]
          /\ fobjs[f[4]].copy_of = 3 /\ fobjs[g[4]].copy_of = 3
    /\ \E h \in ResolvedFields : h[1] = 2 /\ fobjs[h[4]].copy_of = 3
    /\ \E a, b \in ResolvedArgs :
          /\ a[1] = 1 /\ b[1] = 1 /\ a[2] = b[2] /\ a[3] # b[3]
          /\ fobjs[a[4]].copy_of = 1 /\ fobjs[b[4]].copy_of = 1

(***************************************************************************)
(* Properties of Spec                                                      *)
(***************************************************************************)
Min(S) == CHOOSE x \in S : \A y \in S : x <= y

Accepts(t, value) == t.is_type_of.present /\ value \in t.is_type_of.accepts

\* C7: is_possible_type(T) is true exactly when some type in the current
\* get_possible_types() of the Interface or Union has the name T.name.
C7_MembershipByCurrentNames ==
    rres.op = "is_possible_type" =>
        rres.val = (heap[rres.type].name \in
                      {heap[i].name : i \in Elems(get_possible_types(heap[rres.self]))})

\* C8: resolve_type(value) returns what the explicit resolver returns when
\* there is one, whatever any is_type_of says; otherwise the first type
\* that accepts the value, in the order of the Union's member list or in
\* the order in which the Interface's implementors were constructed, and
\* None when no type accepts.
C8_ResolveType ==
    rres.op = "resolve_type" =>
        LET t == heap[rres.self] IN
        IF TypeResolverOf(t).present
        THEN rres.val = IF rres.value \in 1 .. Len(heap) THEN rres.value ELSE 0
        ELSE IF t.kind = "Union"
        THEN LET hits == {k \in 1 .. Len(t.declared) :
                             Accepts(heap[t.declared[k]], rres.value)}
             IN rres.val = IF hits = {} THEN 0 ELSE t.declared[Min(hits)]
        ELSE LET hits == {o \in IdsOfKind(heap, "Object") :
                             /\ rres.self \in Elems(heap[o].declared)
                             /\ Accepts(heap[o], rres.value)}
             IN rres.val = IF hits = {} THEN 0 ELSE Min(hits)

\* an Interface without a resolver picked the earlier of two implementors
\* that both accept the value
C8_Witness ==
    /\ rres.op = "resolve_type"
    /\ heap[rres.self].kind = "Interface"
    /\ ~heap[rres.self].type_resolver.present
    /\ \E o \in IdsOfKind(heap, "Object") :
          /\ o > rres.val /\ rres.val # 0
          /\ rres.self \in Elems(heap[o].declared)
          /\ Accepts(heap[o], rres.value)

\* The arguments of the last Object construction are valid but for the
\* resolvability of the interfaces.
OtherwiseValidObject ==
    /\ rres.name \in ObjectNames
    /\ rres.is_type_of.present => rres.is_type_of.callable
    /\ \A k \in 1 .. Len(rres.interfaces.items) :
           heap[rres.interfaces.items[k]].kind = "Interface"

\* C9: constructing a Union fails, citing the Union and the member, when
\* the Union has no resolver and a listed member has no is_type_of;
\* constructing an Object fails, citing the Interface and the Object,
\* when a declared Interface has no resolver and the Object has no
\* is_type_of; with a resolver, or is_type_of on every member, the
\* construction of otherwise valid arguments succeeds.  For an Object the
\* otherwise valid arguments are a name, an is_type_of that is a function
\* or absent, and no entry that is not an Interface.
C9_Unresolvable ==
    /\ rres.op = "GraphQLObjectType" /\ OtherwiseValidObject =>
         LET items == rres.interfaces.items
             bad == {k \in 1 .. Len(items) :
                        /\ ~heap[items[k]].type_resolver.present
                        /\ ~rres.is_type_of.present}
         IN IF bad # {}
            THEN /\ rres.err.kind =
                      "Interface does not provide resolve_type and implementing Type no is_type_of"
                 /\ rres.err.abstract = heap[items[Min(bad)]].name
                 /\ rres.err.member = rres.name
            ELSE rres.interfaces.shape \in {"None", "list"} =>
                 /\ rres.err = NoErr
                 /\ heap[Len(heap)].kind = "Object"
                 /\ heap[Len(heap)].name = rres.name
    /\ rres.op = "GraphQLUnionType" =>
         LET bad == {k \in 1 .. Len(rres.types) :
                        /\ ~heap[rres.types[k]].is_type_of.present
                        /\ ~rres.resolve_type.present}
         IN IF bad # {}
            THEN /\ rres.err.kind =
                      "Union does not provide resolve_type and possible Type no is_type_of"
                 /\ rres.err.abstract = rres.name
                 /\ rres.err.member = heap[rres.types[Min(bad)]].name
            ELSE rres.types # <<>> =>
                 /\ rres.err = NoErr
                 /\ heap[Len(heap)].kind = "Union"
                 /\ heap[Len(heap)].name = rres.name

\* an Object without is_type_of was refused because of the second of its
\* two interfaces, the first one having a resolver
C9_Witness ==
    /\ rres.op = "GraphQLObjectType"
    /\ rres.err.kind =
          "Interface does not provide resolve_type and implementing Type no is_type_of"
    /\ Len(rres.interfaces.items) = 2
    /\ rres.err.abstract = heap[rres.interfaces.items[2]].name
    /\ heap[rres.interfaces.items[1]].type_resolver.present

\* C10: every constructed Object is in get_possible_types() of each
\* Interface it declares, given as a list or through a producer, and of
\* no other Interface.
C10_Registered ==
    \A o \in IdsOfKind(heap, "Object"), i \in IdsOfKind(heap, "Interface") :
        (i \in Elems(heap[o].declared)) <=> (o \in Elems(get_possible_types(heap[i])))

\* an Object that gave two interfaces through a producer was just
\* constructed, a third type being an Object that declares none
C10_Witness ==
    /\ rres.op = "GraphQLObjectType" /\ rres.err = NoErr
    /\ rres.interfaces.callable
    /\ Len(rres.interfaces.items) = 2
    /\ rres.interfaces.items[1] # rres.interfaces.items[2]
    /\ \A k \in 1 .. 2 :
          Len(heap) \in Elems(get_possible_types(heap[rres.interfaces.items[k]]))

(***************************************************************************)
(* SpecSchema: the schema build.  sgraph[i] is the type with identity i,  *)
(* with its field map resolved: a field is its name, its type value and   *)
(* the list of its arguments.  The types 1 to 9 are the types of          *)
(* NamedTypes; 10 is an Interface and 11 the query root.                  *)
(***************************************************************************)
\* the most fields the query root has
MaxQueryFields == 2

AnotherInterface == NamedType("Interface", "AnotherInterface", 10)
QueryType        == NamedType("Object", "Query", 11)

FieldDef(name, type, args) == [name |-> name, type |-> type, args |-> args]
ArgDef(name, type) == [name |-> name, type |-> type]

\* a type as its constructor leaves it, before any Object registers with it
TypeNode(t, fields, interfaces, types) ==
    [kind |-> t.kind, name |-> t.name, fields |-> fields,
     _interfaces |-> interfaces, _impls |-> <<>>, _types |-> types]

\* AnotherInterface declares field(input: String): String
InterfaceField == FieldDef("field", GraphQLString, <<ArgDef("input", GraphQLString)>>)
AnotherField   == FieldDef("anotherField", GraphQLString, <<>>)

\* the fields SomeObject is given when it declares AnotherInterface: without
\* the interface's field, or with it under some type and arguments, with
\* or without an unrelated field
ObjectFieldTypes == {GraphQLString, GraphQLNonNull(GraphQLString).value, SomeScalarType}
ObjectFieldArgs ==
    {<<ArgDef("input", GraphQLString)>>,
     <<>>,
     <<ArgDef("input", GraphQLString), ArgDef("extra", GraphQLString)>>,
     <<ArgDef("input", SomeScalarType)>>,
     <<ArgDef("input", GraphQLNonNull(GraphQLString).value)>>}
ObjectFields ==
    {<<AnotherField>>}
    \cup {<<FieldDef("field", t, a)>> \o more :
             t \in ObjectFieldTypes, a \in ObjectFieldArgs,
             more \in {<<>>, <<AnotherField>>}}

\* the fields the query root may have; b is the second type named SameName
QueryField(c, b) ==
    CASE c = 1 -> FieldDef("normal", GraphQLString, <<>>)
      [] c = 2 -> FieldDef("fake", FakeString, <<>>)
      [] c = 3 -> FieldDef("a", GraphQLNonNull(GraphQLList(SameNameObject).value).value, <<>>)
      [] c = 4 -> FieldDef("b", b, <<>>)
      [] c = 5 -> FieldDef("iface", AnotherInterface, <<>>)
      [] c = 6 -> FieldDef("o", SomeObjectType, <<>>)
      [] c = 7 -> FieldDef("u", SomeUnionType, <<>>)
      [] c = 8 -> FieldDef("s", SomeScalarType,
                           <<ArgDef("arg", GraphQLList(SomeInputObjectType).value)>>)
QueryFieldChoices == 1 .. 8

RECURSIVE SortedSeq(_)
SortedSeq(S) == IF S = {} THEN <<>> ELSE <<Min(S)>> \o SortedSeq(S \ {Min(S)})

\* the type objects of a test and the registrations their constructors made
SchemaGraph(choices, ofields, odecl, adecl, bkind, bdecl) ==
    LET Decl(d) == IF d THEN <<AnotherInterface.id>> ELSE <<>>
        cs == SortedSeq(choices)
        b  == NamedType(bkind, "SameName", SameNameInterface.id)
        g0 == <<TypeNode(GraphQLString, <<>>, <<>>, <<>>),
                TypeNode(FakeString, <<>>, <<>>, <<>>),
                TypeNode(SomeScalarType, <<>>, <<>>, <<>>),
                TypeNode(SomeEnumType, <<>>, <<>>, <<>>),
                TypeNode(SomeObjectType, ofields, Decl(odecl), <<>>),
                TypeNode(SameNameObject, <<InterfaceField>>, Decl(adecl), <<>>),
                TypeNode(b, <<InterfaceField>>, Decl(bdecl), <<>>),
                TypeNode(SomeUnionType, <<>>, <<>>, <<SameNameObject.id>>),
                TypeNode(SomeInputObjectType, <<FieldDef("val", FakeString, <<>>)>>,
                         <<>>, <<>>),
                TypeNode(AnotherInterface, <<InterfaceField>>, <<>>, <<>>),
                TypeNode(QueryType, [k \in 1 .. Len(cs) |-> QueryField(cs[k], b)],
                         <<>>, <<>>)>>
        g1 == add_impl_to_interfaces(g0, SomeObjectType.id, Decl(odecl))
        g2 == add_impl_to_interfaces(g1, SameNameObject.id, Decl(adecl))
    IN add_impl_to_interfaces(g2, SameNameInterface.id, Decl(bdecl))

TypeOf(g, id) == NamedType(g[id].kind, g[id].name, id)

NoSErr == [kind |-> "none", name |-> "", object |-> "", field |-> "", arg |-> ""]
SErr(kind, name, object, field, arg) ==
    [kind |-> kind, name |-> name, object |-> object, field |-> field, arg |-> arg]

EmptyTypeMap == [n \in {} |-> 0]

\* the types a type refers to from its fields: for every field the types
\* of its arguments, then its type
RECURSIVE field_types(_, _)
field_types(fields, k) ==
    IF k > Len(fields) THEN <<>>
    ELSE [a \in 1 .. Len(fields[k].args) |-> fields[k].args[a].type]
         \o <<fields[k].type>> \o field_types(fields, k + 1)

\* whether the type recorded under the name of type is this type object
is_recorded_instance_by_name(map, type) == TRUE
is_recorded_instance(map, type) == map[type.name] = type.id

\* the reduction that builds type_map; st is the map so far, or the failure
RECURSIVE type_map_reducer(_, _, _)
RECURSIVE type_map_reduce(_, _, _, _)
type_map_reducer(g, st, type) ==
    IF st.err # NoSErr THEN st
    ELSE IF type.kind \in WrapperKinds THEN type_map_reducer(g, st, type.of_type)
    ELSE IF type.name \in DOMAIN st.map
    THEN IF is_recorded_instance(st.map, type) THEN st
         ELSE [st EXCEPT !.err =
                 SErr("Schema must contain unique named types but contains multiple types named",
                      type.name, "", "", "")]
    ELSE LET n  == g[type.id]
             s1 == [st EXCEPT !.map = (type.name :> type.id) @@ @]
             s2 == IF n.kind \in {"Union", "Interface"}
                   THEN type_map_reduce(g, s1,
                            [k \in 1 .. Len(get_possible_types(n)) |->
                                TypeOf(g, get_possible_types(n)[k])], 1)
                   ELSE s1
             s3 == IF n.kind = "Object"
                   THEN type_map_reduce(g, s2,
                            [k \in 1 .. Len(n._interfaces) |-> TypeOf(g, n._interfaces[k])], 1)
                   ELSE s2
         IN IF n.kind \in {"Object", "Interface", "InputObject"}
            THEN type_map_reduce(g, s3, field_types(n.fields, 1), 1)
            ELSE s3
type_map_reduce(g, st, types, k) ==
    IF k > Len(types) THEN st
    ELSE type_map_reduce(g, type_map_reducer(g, st, types[k]), types, k + 1)

\* the check of one field of the interface, the k-th, against the object
assert_field_implemented(object, iface, k) ==
    LET ifield == iface.fields[k]
        found  == {j \in 1 .. Len(object.fields) : object.fields[j].name = ifield.name}
    IN IF found = {}
       THEN SErr("expects field but object does not provide it",
                 iface.name, object.name, ifield.name, "")
       ELSE LET ofield == object.fields[Min(found)]
                ArgOf(f, name) == f.args[CHOOSE j \in 1 .. Len(f.args) : f.args[j].name = name]
                Has(f, name) == \E j \in 1 .. Len(f.args) : f.args[j].name = name
                badI == {a \in 1 .. Len(ifield.args) :
                            \/ ~Has(ofield, ifield.args[a].name)
                            \/ ~is_same_type(ifield.args[a].type,
                                             ArgOf(ofield, ifield.args[a].name).type)}
                badO == {a \in 1 .. Len(ofield.args) : ~Has(ifield, ofield.args[a].name)}
            IN IF ~is_same_type(ifield.type, ofield.type)
               THEN SErr("expects type but object provides type",
                         iface.name, object.name, ifield.name, "")
               ELSE IF badI # {}
               THEN LET name == ifield.args[Min(badI)].name IN
                    IF ~Has(ofield, name)
                    THEN SErr("expects argument but object does not provide it",
                              iface.name, object.name, ifield.name, name)
                    ELSE SErr("expects argument type but object provides type",
                              iface.name, object.name, ifield.name, name)
               ELSE IF badO # {}
               THEN SErr("does not define argument but object provides it",
                         iface.name, object.name, ifield.name, ofield.args[Min(badO)].name)
               ELSE NoSErr

\* the first failure among the fields of the interface, if any
assert_object_implements_interface(object, iface) ==
    LET bad == {k \in 1 .. Len(iface.fields) :
                   assert_field_implemented(object, iface, k) # NoSErr}
    IN IF bad = {} THEN NoSErr ELSE assert_field_implemented(object, iface, Min(bad))

\* the first failure among the Object types of the map and their interfaces
assert_objects_implement_interfaces(g, map) ==
    LET pairs == {<<o, k>> \in (1 .. Len(g)) \X (1 .. Len(g)) :
                  /\ g[o].kind = "Object"
                  /\ g[o].name \in DOMAIN map /\ map[g[o].name] = o
                  /\ k <= Len(g[o]._interfaces)
                  /\ assert_object_implements_interface(g[o], g[g[o]._interfaces[k]])
                         # NoSErr}
    IN IF pairs = {} THEN NoSErr
       ELSE LET o == Min({p[1] : p \in pairs})
                k == Min({p[2] : p \in {q \in pairs : q[1] = o}})
            IN assert_object_implements_interface(g[o], g[g[o]._interfaces[k]])

GraphQLSchema_any_roots(g, query, mutation) ==
    LET roots == <<TypeOf(g, query)>>
                 \o (IF mutation = 0 THEN <<>> ELSE <<TypeOf(g, mutation)>>)
        st == type_map_reduce(g, [err |-> NoSErr, map |-> EmptyTypeMap], roots, 1)
    IN IF st.err # NoSErr THEN [err |-> st.err, type_map |-> EmptyTypeMap]
       ELSE IF assert_objects_implement_interfaces(g, st.map) # NoSErr
       THEN [err |-> assert_objects_implement_interfaces(g, st.map),
             type_map |-> EmptyTypeMap]
       ELSE [err |-> NoSErr, type_map |-> st.map]
\* GraphQLSchema(query, mutation); mutation is 0 when none is given
GraphQLSchema(g, query, mutation) ==
    IF g[query].kind # "Object"
    THEN [err |-> SErr("Schema query must be Object Type but got", g[query].name, "", "", ""),
          type_map |-> EmptyTypeMap]
    ELSE IF mutation # 0 /\ g[mutation].kind # "Object"
    THEN [err |-> SErr("Schema mutation must be Object Type but got", g[mutation].name,
                       "", "", ""),
          type_map |-> EmptyTypeMap]
    ELSE LET roots == <<TypeOf(g, query)>>
                      \o (IF mutation = 0 THEN <<>> ELSE <<TypeOf(g, mutation)>>)
             st == type_map_reduce(g, [err |-> NoSErr, map |-> EmptyTypeMap], roots, 1)
         IN IF st.err # NoSErr THEN [err |-> st.err, type_map |-> EmptyTypeMap]
            ELSE IF assert_objects_implement_interfaces(g, st.map) # NoSErr
            THEN [err |-> assert_objects_implement_interfaces(g, st.map),
                  type_map |-> EmptyTypeMap]
            ELSE [err |-> NoSErr, type_map |-> st.map]

NewSchema ==
    /\ sbuild.pc = "idle"
    /\ \E query \in {QueryType.id, SomeInputObjectType.id},
          mutation \in {0, SomeObjectType.id, SomeInputObjectType.id} :
         LET r == GraphQLSchema(sgraph, query, mutation) IN
         sbuild' = [pc |-> "done", query |-> query, mutation |-> mutation,
                    err |-> r.err, type_map |-> r.type_map]
    /\ UNCHANGED sgraph

InitSchema ==
    /\ \E choices \in {S \in SUBSET QueryFieldChoices :
                          Cardinality(S) \in 1 .. MaxQueryFields},
          ofields \in ObjectFields, odecl, adecl, bdecl \in BOOLEAN,
          bkind \in {"Object", "Interface"} :
         \* what a type that declares no interface holds is left at one value
         /\ ~odecl => ofields = <<InterfaceField>>
         /\ bkind = "Interface" => ~bdecl
         /\ sgraph = SchemaGraph(choices, ofields, odecl, adecl, bkind, bdecl)
    /\ sbuild = [pc |-> "idle"]
    /\ InitTypesIdle /\ InitRegIdle /\ InitFieldsIdle /\ InitBridgeIdle

NextSchema ==
    /\ NewSchema
    /\ UNCHANGED <<varsTypes, varsReg, varsFields, varsBridge>>

SpecSchema == InitSchema /\ [][NextSchema]_vars

(***************************************************************************)
(* Properties of SpecSchema                                                *)
(***************************************************************************)
RECURSIVE NamedId(_)
NamedId(t) == IF t.kind \in WrapperKinds THEN NamedId(t.of_type) ELSE t.id

\* the types a type refers to: through its fields and their arguments, its
\* interfaces, its Union members, and, for an Interface, the Object types
\* that declare it
Refers(g, x) ==
    {NamedId(g[x].fields[k].type) : k \in 1 .. Len(g[x].fields)}
    \cup UNION {{NamedId(g[x].fields[k].args[a].type) : a \in 1 .. Len(g[x].fields[k].args)} :
                   k \in 1 .. Len(g[x].fields)}
    \cup Elems(g[x]._interfaces)
    \cup Elems(g[x]._types)
    \cup {o \in 1 .. Len(g) : g[o].kind = "Object" /\ x \in Elems(g[o]._interfaces)}

RECURSIVE Closure(_, _)
Closure(g, S) ==
    LET N == S \cup UNION {Refers(g, x) : x \in S}
    IN IF N = S THEN S ELSE Closure(g, N)

\* the types reachable from the roots of the build that was made
Reachable ==
    Closure(sgraph, {sbuild.query} \cup (IF sbuild.mutation = 0 THEN {} ELSE {sbuild.mutation}))

RootsAreObjects ==
    /\ sbuild.pc = "done"
    /\ sgraph[sbuild.query].kind = "Object"
    /\ sbuild.mutation # 0 => sgraph[sbuild.mutation].kind = "Object"

DuplicatedNames ==
    {sgraph[x].name : x \in {y \in Reachable :
        \E z \in Reachable : z # y /\ sgraph[z].name = sgraph[y].name}}

UniqueNamesMessage ==
    "Schema must contain unique named types but contains multiple types named"

\* C1: a build from Object roots fails with the unique-named-types message,
\* naming a duplicated name, exactly when two distinct type objects of one
\* name are reachable from the roots, of the same or of different kinds;
\* a type object reached through several paths is no duplicate; after a
\* successful build type_map holds the names of the reachable types and
\* maps every name to the one reachable type object of that name.
C1_UniqueNames ==
    RootsAreObjects =>
        /\ (DuplicatedNames # {}) <=> (sbuild.err.kind = UniqueNamesMessage)
        /\ sbuild.err.kind = UniqueNamesMessage => sbuild.err.name \in DuplicatedNames
        /\ sbuild.err = NoSErr =>
              /\ DOMAIN sbuild.type_map = {sgraph[x].name : x \in Reachable}
              /\ \A x \in Reachable : sbuild.type_map[sgraph[x].name] = x

\* a build failed naming "SameName": an Object of that name is reached
\* through a Union, an Interface of that name through a field, while the
\* one String is reached as a field type and as an argument type
C1_Witness ==
    /\ RootsAreObjects
    /\ sbuild.err = SErr(UniqueNamesMessage, "SameName", "", "", "")
    /\ sgraph[SameNameInterface.id].kind = "Interface"
    /\ {sgraph[QueryType.id].fields[k].name : k \in 1 .. Len(sgraph[QueryType.id].fields)}
           = {"b", "u"}
    /\ ~(FakeString.id \in Reachable)

\* the (Object, Interface, field) triples of the reachable Object types
\* where the Object does not implement the field of the Interface it
\* declares: no field of that name, a field of another type structure,
\* another set of argument names, or an argument of another type structure
Unimplemented ==
    {t \in {<<o, i, k>> \in Reachable \X Reachable \X (1 .. 2) :
               /\ sgraph[o].kind = "Object"
               /\ i \in Elems(sgraph[o]._interfaces)
               /\ k <= Len(sgraph[i].fields)} :
        LET f == sgraph[t[2]].fields[t[3]]
            ArgNames(h) == {h.args[a].name : a \in 1 .. Len(h.args)}
        IN ~ \E j \in 1 .. Len(sgraph[t[1]].fields) :
               LET h == sgraph[t[1]].fields[j] IN
               /\ h.name = f.name
               /\ Shape(h.type) = Shape(f.type)
               /\ ArgNames(h) = ArgNames(f)
               /\ \A a \in 1 .. Len(h.args), c \in 1 .. Len(f.args) :
                     h.args[a].name = f.args[c].name
                         => Shape(h.args[a].type) = Shape(f.args[c].type)}

ConformanceMessages ==
    {"expects field but object does not provide it",
     "expects type but object provides type",
     "expects argument but object does not provide it",
     "expects argument type but object provides type",
     "does not define argument but object provides it"}

\* C2: a build from Object roots that reach no duplicated name succeeds
\* exactly when every reachable Object type has, for every field of every
\* Interface it declares, a field of that name with a type of the same
\* structure, the same set of argument names and same-named arguments of
\* the same type structure; a failure cites the Interface, the Object and
\* the field of such a mismatch; fields the Interface does not declare
\* play no part.
C2_Conformance ==
    (RootsAreObjects /\ DuplicatedNames = {}) =>
        /\ (sbuild.err = NoSErr) <=> (Unimplemented = {})
        /\ sbuild.err # NoSErr =>
              /\ sbuild.err.kind \in ConformanceMessages
              /\ \E t \in Unimplemented :
                    /\ sbuild.err.name = sgraph[t[2]].name
                    /\ sbuild.err.object = sgraph[t[1]].name
                    /\ sbuild.err.field = sgraph[t[2]].fields[t[3]].name

\* a build failed because SomeObject, reached only as an implementor of
\* AnotherInterface, gives the interface's field the type String! for String
C2_Witness ==
    /\ RootsAreObjects /\ DuplicatedNames = {}
    /\ sbuild.err = SErr("expects type but object provides type",
                         "AnotherInterface", "SomeObject", "field", "")
    /\ sbuild.mutation = 0
    /\ \A k \in 1 .. Len(sgraph[QueryType.id].fields) :
          sgraph[QueryType.id].fields[k].type # SomeObjectType
    /\ \E j \in 1 .. Len(sgraph[SomeObjectType.id].fields) :
          /\ sgraph[SomeObjectType.id].fields[j].name = "field"
          /\ sgraph[SomeObjectType.id].fields[j].type = GraphQLNonNull(GraphQLString).value
          /\ sgraph[SomeObjectType.id].fields[j].args = InterfaceField.args
    /\ Len(sgraph[SomeObjectType.id].fields) = 2

\* the Object types that declare the Interface i
Implementors(i) ==
    {o \in 1 .. Len(sgraph) :
        sgraph[o].kind = "Object" /\ i \in Elems(sgraph[o]._interfaces)}

\* C11: the Object types that declare an Interface reachable from the
\* roots belong to the schema's types, referred to by a field or not: a
\* successful build has each of them in type_map, and when two distinct
\* ones share a name the build fails with the unique-named-types message,
\* which names that name when no other name is duplicated.
C11_ImplementorsAreCollected ==
    RootsAreObjects =>
        \A i \in {x \in Reachable : sgraph[x].kind = "Interface"} :
            /\ sbuild.err = NoSErr =>
                  \A o \in Implementors(i) :
                      /\ sgraph[o].name \in DOMAIN sbuild.type_map
                      /\ sbuild.type_map[sgraph[o].name] = o
            /\ \A o, p \in Implementors(i) :
                  (o # p /\ sgraph[o].name = sgraph[p].name) =>
                      /\ sbuild.err.kind = UniqueNamesMessage
                      /\ DuplicatedNames = {sgraph[o].name} =>
                            sbuild.err.name = sgraph[o].name

\* the query root has the one field iface: AnotherInterface, two Object
\* types named SameName declare AnotherInterface, and the build failed
\* naming SameName
C11_Witness ==
    /\ RootsAreObjects /\ sbuild.mutation = 0
    /\ Len(sgraph[QueryType.id].fields) = 1
    /\ sgraph[QueryType.id].fields[1].type = AnotherInterface
    /\ {SameNameObject.id, SameNameInterface.id} \subseteq Implementors(AnotherInterface.id)
    /\ sbuild.err = SErr(UniqueNamesMessage, "SameName", "", "", "")

\* C16: GraphQLSchema(query, mutation) fails with the query-must-be-Object
\* message, citing the type, when query is no Object type, and with the
\* mutation-must-be-Object message when a mutation is given that is no
\* Object type; an Object query, alone or with an Object mutation, is
\* accepted as a root, and the build succeeds when nothing else is wrong
\* with the types.
C16_ObjectRoots ==
    sbuild.pc = "done" =>
        IF sgraph[sbuild.query].kind # "Object"
        THEN sbuild.err = SErr("Schema query must be Object Type but got",
                               sgraph[sbuild.query].name, "", "", "")
        ELSE IF sbuild.mutation # 0 /\ sgraph[sbuild.mutation].kind # "Object"
        THEN sbuild.err = SErr("Schema mutation must be Object Type but got",
                               sgraph[sbuild.mutation].name, "", "", "")
        ELSE /\ sbuild.err.kind \notin {"Schema query must be Object Type but got",
                                        "Schema mutation must be Object Type but got"}
             /\ (DuplicatedNames = {} /\ Unimplemented = {}) => sbuild.err = NoSErr

\* an Object query with an InputObject mutation was refused
C16_Witness ==
    /\ sbuild.pc = "done"
    /\ sbuild.query = QueryType.id
    /\ sbuild.mutation = SomeInputObjectType.id
    /\ sbuild.err = SErr("Schema mutation must be Object Type but got",
                         "SomeInputObject", "", "", "")

(***************************************************************************)
(* Further properties of SpecTypes                                         *)
(***************************************************************************)
\* t is a chain of wrappers that ends in a named type, with no NonNull
\* directly around a NonNull
RECURSIVE WellFormed(_)
WellFormed(t) ==
    CASE t.kind = "List"    -> WellFormed(t.of_type)
      [] t.kind = "NonNull" -> t.of_type.kind # "NonNull" /\ WellFormed(t.of_type)
      [] OTHER              -> t \in NamedTypes

\* the outcome of GraphQLList(x): x2 is the value afterwards
ListOutcome(x, x2) ==
    IF x # NotAType
    THEN tres'.ok /\ x2 = [kind |-> "List", of_type |-> x]
    ELSE ~tres'.ok /\ x2 = x
\* the outcome of GraphQLNonNull(x)
NonNullOutcome(x, x2) ==
    IF x # NotAType /\ x.kind # "NonNull"
    THEN tres'.ok /\ x2 = [kind |-> "NonNull", of_type |-> x]
    ELSE ~tres'.ok /\ x2 = x

\* C17: GraphQLList(x) succeeds exactly when x is a type, GraphQLNonNull(x)
\* exactly when x is a type that is no NonNull; so in every constructed
\* type no NonNull directly wraps a NonNull and the chain of wrappers ends
\* in a named type.
C17_Wrappers ==
    /\ [](\A t \in {ta, tb} : t.kind \in WrapperKinds => WellFormed(t))
    /\ [][/\ MkListA => ListOutcome(ta, ta')
          /\ MkListB => ListOutcome(tb, tb')
          /\ MkNonNullA => NonNullOutcome(ta, ta')
          /\ MkNonNullB => NonNullOutcome(tb, tb')]_vars

\* GraphQLNonNull was refused for a NonNull, the other value being named
C17_Witness ==
    /\ tres.op = "GraphQLNonNull" /\ ~tres.ok
    /\ ta.kind = "NonNull"
    /\ tb.kind \in NamedKinds

(***************************************************************************)
(* Further properties of SpecFields                                        *)
(***************************************************************************)
\* an identifier: a letter or underscore, then letters, digits, underscores
IsIdentifier(name) ==
    /\ name # <<>>
    /\ \A i \in 1 .. Len(name) :
          \/ name[i] \in Letters \cup {"_"}
          \/ i > 1 /\ name[i] \in Digits

\* the type that the last get_fields() was called on, and what it was given
CalledType == ftypes[fres.t]
GivenItems == CalledType._fields.items

\* the field under the i-th key given is valid: its key is an identifier,
\* its type is of the class the owner requires and, for an Object or
\* Interface, its args are absent or a mapping of input-typed arguments
\* under identifiers
ValidField(i) ==
    LET field == authored[GivenItems[i].obj] IN
    /\ IsIdentifier(GivenItems[i].key)
    /\ IF CalledType.kind = "InputObject" THEN is_input_type(field.type)
       ELSE /\ is_output_type(field.type)
            /\ \/ field.args.shape = "None"
               \/ /\ field.args.shape = "dict"
                  /\ \A a \in 1 .. Len(field.args.items) :
                        /\ IsIdentifier(field.args.items[a].key)
                        /\ is_input_type(authored[field.args.items[a].obj].type)

FieldsMustBeMappingMessage ==
    "fields must be an mapping (dict) with field names as keys or a function which returns such an mapping"

\* C12: get_fields() fails with the fields-must-be-a-mapping message, which
\* names the type, exactly when what was given or produced is None, is not
\* a mapping or is an empty mapping; on a non-empty mapping of valid
\* fields it succeeds with a field map of the keys given.
C12_FieldsMustBeMapping ==
    fres.op = "get_fields" =>
        LET given == CalledType._fields
            unfit == given.shape # "dict" \/ given.items = <<>>
        IN /\ unfit <=> fres.err.kind = FieldsMustBeMappingMessage
           /\ unfit => fres.err = FErr(FieldsMustBeMappingMessage, CalledType.name,
                                       <<>>, <<>>, "")
           /\ (~unfit /\ \A i \in 1 .. Len(given.items) : ValidField(i)) =>
                 /\ fres.err = NoFErr
                 /\ [i \in 1 .. Len(fres.map) |-> fres.map[i].key]
                       = [i \in 1 .. Len(given.items) |-> given.items[i].key]

\* an Interface whose producer returns an empty mapping was refused
C12_Witness ==
    /\ fres.op = "get_fields" /\ fres.t = 1
    /\ CalledType.kind = "Interface"
    /\ CalledType._fields = [callable |-> TRUE, shape |-> "dict", items |-> <<>>]
    /\ fres.err = FErr(FieldsMustBeMappingMessage, "T1", <<>>, <<>>, "")

\* the class of the named type under the wrappers of t
NamedKindOf(t) == Shape(t)[Len(Shape(t)) - 1]
InputKinds  == {"Scalar", "Enum", "InputObject"}
OutputKinds == {"Scalar", "Enum", "Object", "Interface", "Union"}

\* the i-th field given has a type of the wrong class for its owner, or,
\* on an Object or Interface, a mapping of arguments one of which has a
\* type that is no input type
Misclassified(i) ==
    LET field == authored[GivenItems[i].obj] IN
    IF CalledType.kind = "InputObject" THEN NamedKindOf(field.type) \notin InputKinds
    ELSE \/ NamedKindOf(field.type) \notin OutputKinds
         \/ /\ field.args.shape = "dict"
            /\ \E a \in 1 .. Len(field.args.items) :
                  NamedKindOf(authored[field.args.items[a].obj].type) \notin InputKinds

\* C14: get_fields() fails when a field of an Object or Interface has a
\* type that is no output type, a field of an InputObject a type that is
\* no input type, or an argument a type that is no input type; no field
\* map that was returned or cached holds such a field or argument.
C14_ClassifiedFields ==
    /\ (fres.op = "get_fields" /\ \E i \in 1 .. Len(GivenItems) : Misclassified(i))
           => fres.err # NoFErr
    /\ \A f \in ResolvedFields :
          NamedKindOf(fobjs[f[4]].type) \in
              IF ftypes[f[1]].kind = "InputObject" THEN InputKinds ELSE OutputKinds
    /\ \A a \in ResolvedArgs : NamedKindOf(fobjs[a[4]].type) \in InputKinds

\* an Object was refused for the second argument of its second field, an
\* argument of an Object type, the fields and the first argument being fit
C14_Witness ==
    /\ fres.op = "get_fields" /\ fres.t = 1
    /\ CalledType.kind = "Object"
    /\ fres.err.kind = "argument type must be Input Type"
    /\ Len(GivenItems) = 2
    /\ Len(authored[GivenItems[2].obj].args.items) = 2
    /\ fres.err.field = GivenItems[2].key
    /\ fres.err.arg = authored[GivenItems[2].obj].args.items[2].key
    /\ fres.err.got = "SomeObject"

\* C15: when a field of an InputObject has a type that is no input type,
\* the failure names the InputObject that owns the field, the field and
\* the type, as the failure for an Object or Interface field names its
\* owner.
C15_InputFieldMessageNamesOwner ==
    (fres.op = "get_fields"
       /\ fres.err.kind \in {"field type must be Input Type", "field type must be Output Type"})
        => /\ fres.err.owner = CalledType.name
           /\ \E i \in 1 .. Len(GivenItems) :
                 /\ fres.err.field = GivenItems[i].key
                 /\ fres.err.got = TypeStr(authored[GivenItems[i].obj].type)

ArgsMustBeMappingMessage == "args must be an mapping (dict) with argument names as keys"

\* C20: on an Object or Interface, resolving the field map fails for every
\* field whose args were given as something that is no mapping, an empty
\* or non-empty list, with the args-must-be-a-mapping message naming the
\* type and the field when nothing before it is at fault; it succeeds
\* when every field is valid, with args absent or a mapping of valid
\* arguments.
C20_ArgsMustBeMapping ==
    (fres.op = "get_fields" /\ CalledType.kind # "InputObject"
       /\ CalledType._fields.shape = "dict") =>
        /\ \A i \in 1 .. Len(GivenItems) :
              authored[GivenItems[i].obj].args.shape = "list" =>
                 /\ fres.err # NoFErr
                 /\ ( /\ \A j \in 1 .. i - 1 : ValidField(j)
                      /\ IsIdentifier(GivenItems[i].key)
                      /\ is_output_type(authored[GivenItems[i].obj].type) )
                       => fres.err = FErr(ArgsMustBeMappingMessage, CalledType.name,
                                          GivenItems[i].key, <<>>, "")
        /\ (GivenItems # <<>> /\ \A i \in 1 .. Len(GivenItems) : ValidField(i))
              => fres.err = NoFErr

\* The outcome of get_fields() on ftypes[t] as it was constructed, with
\* the objects the author made.
FirstOutcome(t) ==
    get_fields([ftypes[t] EXCEPT !.calls = 0, !.fails = 0,
                                 !._field_map = NoFieldMap], authored)

\* C29: a get_fields() call that fails caches nothing and keeps none of
\* the objects it made; once a call on a type has failed the cache of the
\* type stays unset and every later call on it fails, all of them with
\* the message of the first call.
C29_FailureCachesNothing ==
    /\ [](\A t \in 1 .. Len(ftypes) :
            ftypes[t].fails > 0 =>
                /\ ftypes[t]._field_map = NoFieldMap
                /\ FirstOutcome(t).err # NoFErr
                /\ (fres.op = "get_fields" /\ fres.t = t) =>
                       fres.err = FirstOutcome(t).err)
    /\ [][ fres'.op = "get_fields" /\ fres'.err # NoFErr =>
             /\ fobjs' = fobjs
             /\ ftypes'[fres'.t]._field_map = NoFieldMap
             /\ ftypes'[fres'.t].fails = ftypes[fres'.t].fails + 1 ]_vars

\* get_fields() has failed twice on a type given two fields, on the second
\* field, the other type having been resolved.
C29_Witness ==
    /\ fres.op = "get_fields" /\ fres.err # NoFErr
    /\ CalledType.fails = 2
    /\ Len(GivenItems) = 2
    /\ fres.err.field = GivenItems[2].key
    /\ \E t \in 1 .. Len(ftypes) : ftypes[t]._field_map.resolved

(***************************************************************************)
(* SpecNames: get_fields() on one type with one field, which has one      *)
(* argument, under keys of every spelling.                                 *)
(***************************************************************************)
\* the longest key
MaxNameLen == 3

\* a letter, the underscore, a digit, and three characters outside
\* [_a-zA-Z0-9]: the dash, the space and the line feed
NameAlphabet == {"a", "_", "1", "-", " ", LF}
Names == UNION {[1 .. n -> NameAlphabet] : n \in 0 .. MaxNameLen}

InitNames ==
    /\ \E kind \in {"Object", "Interface", "InputObject"}, key, arg_key \in Names :
         /\ key = <<"a">> \/ arg_key = <<"a">>
         /\ ftypes = <<FieldsType(kind, "T1",
                                  [callable |-> FALSE, shape |-> "dict",
                                   items |-> <<Item(key, 2)>>])>>
         /\ authored = <<GraphQLArgument(GraphQLString),
                         GraphQLField(GraphQLString,
                                      [shape |-> "dict", items |-> <<Item(arg_key, 1)>>])>>
    /\ fobjs = authored
    /\ fres = [op |-> "none"]
    /\ InitTypesIdle /\ InitRegIdle /\ InitSchemaIdle /\ InitBridgeIdle

SpecNames == InitNames /\ [][NextFields]_vars

(***************************************************************************)
(* Properties of SpecNames                                                 *)
(***************************************************************************)
NamesMustMatchMessage == "Names must match /^[_a-zA-Z][_a-zA-Z0-9]*$/"

MaxLeafTypes == 1

PyNone   == [py |-> "None"]
PyFn     == [py |-> "function"]
PyDict   == [py |-> "dict", items |-> <<>>]
PyStr(s) == [py |-> "str", s |-> s]
PyInt(i) == [py |-> "int", i |-> i]

\* callable(v), bool(v)
Callable(v) == v.py = "function"
Truthy(v) ==
    CASE v.py = "None"     -> FALSE
      [] v.py = "function" -> TRUE
      [] v.py = "dict"     -> v.items # <<>>
      [] v.py = "str"      -> v.s # <<>>
      [] v.py = "int"      -> v.i # 0

\* what a test passes for serialize, parse_value and parse_literal:
\* nothing, a function, an empty dict, a string
CoercerArguments == {PyNone, PyFn, PyDict, PyStr(<<"x">>)}
\* the names a test gives a Scalar or Enum
LeafNames == {<<"S">>, <<>>, <<"S", "-">>}

\* definition.py:89-104: the failure, or the Scalar constructed
GraphQLScalarType(name, serialize, parse_value, parse_literal) ==
    IF name = <<>> THEN [err |-> FErr("Type must be named", "", <<>>, <<>>, ""), value |-> PyNone]
    ELSE IF assert_valid_name(name) # NoFErr
    THEN [err |-> assert_valid_name(name), value |-> PyNone]
    ELSE IF ~Callable(serialize)
    THEN [err |-> FErr("must provide serialize function", "", name, <<>>, ""),
          value |-> PyNone]
    ELSE IF (Truthy(parse_value) \/ Truthy(parse_literal))
            /\ ~(Callable(parse_value) /\ Callable(parse_literal))
    THEN [err |-> FErr("must provide both parse_value and parse_literal functions",
                       "", name, <<>>, ""),
          value |-> PyNone]
    ELSE [err |-> NoFErr,
          value |-> [kind |-> "Scalar", name |-> name, _serialize |-> serialize,
                     _parse_value |-> parse_value, _parse_literal |-> parse_literal]]

NewScalar ==
    /\ Len(heap) < MaxLeafTypes
    /\ \E name \in LeafNames, serialize, parse_value, parse_literal \in CoercerArguments :
         LET r == GraphQLScalarType(name, serialize, parse_value, parse_literal) IN
         /\ heap' = IF r.err = NoFErr THEN Append(heap, r.value) ELSE heap
         /\ rres' = [op |-> "GraphQLScalarType", err |-> r.err, name |-> name,
                     serialize |-> serialize, parse_value |-> parse_value,
                     parse_literal |-> parse_literal]

\* the most values an Enum is given
MaxEnumValues == 2

\* definition.py:447-452: GraphQLEnumValue(value); value is None when the
\* internal value is not given
GraphQLEnumValue(value) == [py |-> "GraphQLEnumValue", value |-> value, name |-> Unset]

\* the value names, in the order in which a values dict holds them
EnumKeys == <<<<"A">>, <<"B">>>>
\* what a values dict refers to: an EnumValue without an internal value or
\* with the internal value 1 or 2, or the number 10
EnumValueArguments ==
    {GraphQLEnumValue(PyNone), GraphQLEnumValue(PyInt(1)), GraphQLEnumValue(PyInt(2)),
     PyInt(10)}
\* a values= argument: None, a list, or a dict
ValuesArguments ==
    {[shape |-> sh, items |-> <<>>] : sh \in {"None", "list"}}
    \cup {[shape |-> "dict", items |-> d] :
             d \in DictsInOrder(EnumKeys, EnumValueArguments, MaxEnumValues)}

ValuesMustBeMapping(owner) ==
    FErr("values must be an mapping (dict) with value names as keys", owner, <<>>, <<>>, "")

\* definition.py:438-444: the loop over value_map.items() from item k on
RECURSIVE define_enum_values_loop(_, _, _, _)
define_enum_values_loop(type_name, items, k, values) ==
    IF k > Len(items) THEN [err |-> NoFErr, values |-> values]
    ELSE LET value_name == items[k].key
             value == items[k].obj
         IN IF assert_valid_name(value_name) # NoFErr
            THEN [err |-> assert_valid_name(value_name), values |-> <<>>]
            ELSE IF value.py # "GraphQLEnumValue"
            THEN [err |-> FErr("must refer to an object of GraphQLEnumValue type",
                               type_name, value_name, <<>>, ""),
                  values |-> <<>>]
            ELSE define_enum_values_loop(type_name, items, k + 1,
                     Append(values, [value EXCEPT !.name = value_name]))

\* definition.py:432-444
define_enum_values(type_name, value_map) ==
    IF value_map.shape # "dict" \/ value_map.items = <<>>
    THEN [err |-> ValuesMustBeMapping(type_name), values |-> <<>>]
    ELSE define_enum_values_loop(type_name, value_map.items, 1, <<>>)

\* definition.py:384-390: the failure, or the Enum constructed; declared
\* keeps the values= argument
GraphQLEnumType(name, values) ==
    IF assert_valid_name(name) # NoFErr
    THEN [err |-> assert_valid_name(name), value |-> PyNone]
    ELSE LET r == define_enum_values(name, values) IN
         IF r.err # NoFErr THEN [err |-> r.err, value |-> PyNone]
         ELSE [err |-> NoFErr,
               value |-> [kind |-> "Enum", name |-> name, _values |-> r.values,
                          declared |-> values.items]]

NewEnum ==
    /\ Len(heap) < MaxLeafTypes
    /\ \E name \in LeafNames, values \in ValuesArguments :
         LET r == GraphQLEnumType(name, values) IN
         /\ heap' = IF r.err = NoFErr THEN Append(heap, r.value) ELSE heap
         /\ rres' = [op |-> "GraphQLEnumType", err |-> r.err, name |-> name,
                     values |-> values]

\* definition.py:416-430: lookup.get(key) of the dict that the loop over
\* get_values() fills, a later value replacing an earlier one of its key
lookup_get(keys, values, key) ==
    LET hits == {k \in 1 .. Len(values) : keys[k] = key}
    IN IF hits = {} THEN PyNone
       ELSE values[CHOOSE k \in hits : \A j \in hits : j <= k]

\* definition.py:416-422
get_value_lookup_get(self, value) ==
    lookup_get([k \in 1 .. Len(self._values) |-> self._values[k].value], self._values, value)
\* definition.py:424-430
get_name_lookup_get(self, name) ==
    lookup_get([k \in 1 .. Len(self._values) |-> self._values[k].name], self._values, name)

\* definition.py:395-400; every value the model passes is hashable
GraphQLEnumType_serialize(self, value) ==
    LET enum_value == get_value_lookup_get(self, value)
    IN IF enum_value # PyNone THEN PyStr(enum_value.name) ELSE PyNone

\* definition.py:409-414, for an ast.EnumValue whose value is name
GraphQLEnumType_parse_literal(self, name) ==
    LET enum_value == get_name_lookup_get(self, name)
    IN IF enum_value # PyNone THEN enum_value.value ELSE PyNone

\* the values serialize is asked about
SerializeArguments ==
    {PyNone, PyInt(1), PyInt(2), PyInt(3), PyStr(<<"A">>), PyStr(<<"B">>)}

EnumIds == {i \in 1 .. Len(heap) : heap[i].kind = "Enum"}

\* heap[self].get_values()
EnumGetValues ==
    /\ \E self \in EnumIds :
         rres' = [op |-> "get_values", self |-> self, val |-> heap[self]._values]
    /\ UNCHANGED heap

\* heap[self].serialize(value)
EnumSerialize ==
    /\ \E self \in EnumIds, value \in SerializeArguments :
         rres' = [op |-> "serialize", self |-> self, value |-> value,
                  val |-> GraphQLEnumType_serialize(heap[self], value)]
    /\ UNCHANGED heap

\* heap[self].parse_literal(ast.EnumValue(name))
EnumParseLiteral ==
    /\ \E self \in EnumIds, k \in 1 .. Len(EnumKeys) :
         rres' = [op |-> "parse_literal", self |-> self, name |-> EnumKeys[k],
                  val |-> GraphQLEnumType_parse_literal(heap[self], EnumKeys[k])]
    /\ UNCHANGED heap

InitLeaf ==
    /\ InitRegIdle /\ InitTypesIdle /\ InitFieldsIdle /\ InitSchemaIdle
    /\ InitBridgeIdle

NextLeaf ==
    /\ \/ NewScalar
       \/ NewEnum
       \/ EnumGetValues
       \/ EnumSerialize
       \/ EnumParseLiteral
    /\ UNCHANGED <<varsTypes, varsFields, varsSchema, varsBridge>>

SpecLeaf == InitLeaf /\ [][NextLeaf]_vars

(***************************************************************************)
(* Properties of SpecLeaf                                                  *)
(***************************************************************************)
\* C18: with a valid name, constructing a Scalar fails when serialize is
\* missing or not callable, when exactly one of parse_value and
\* parse_literal is supplied, and when a supplied one is not callable; it
\* succeeds when serialize is callable and parse_value and parse_literal
\* are both callable or both absent.
C18_ScalarCoercers ==
    (rres.op = "GraphQLScalarType" /\ IsIdentifier(rres.name)) =>
        LET Supplied(v) == v # PyNone
            fit == /\ Callable(rres.serialize)
                   /\ Supplied(rres.parse_value) <=> Supplied(rres.parse_literal)
                   /\ Supplied(rres.parse_value) => Callable(rres.parse_value)
                   /\ Supplied(rres.parse_literal) => Callable(rres.parse_literal)
        IN fit <=> rres.err = NoFErr

\* C19: every value of an Enum that was declared without an internal value
\* has its name as internal value: get_values() reports value = name for
\* it, and serialize(name) returns the name.
C19_EnumValueDefaultsToName ==
    LET Defaulted(self) ==
            {k \in 1 .. Len(heap[self].declared) :
                heap[self].declared[k].obj = GraphQLEnumValue(PyNone)}
    IN /\ rres.op = "get_values" =>
             \A k \in Defaulted(rres.self) :
                 /\ rres.val[k].name = heap[rres.self].declared[k].key
                 /\ rres.val[k].value = PyStr(rres.val[k].name)
       /\ rres.op = "serialize" =>
             \A k \in Defaulted(rres.self) :
                 rres.value = PyStr(heap[rres.self].declared[k].key)
                     => rres.val = rres.value


(***************************************************************************)
(* SpecBridge: the asyncio execution middleware.  deferreds[i] is the i-th *)
(* Deferred made and futures[i] the i-th asyncio future made; ready is the *)
(* event loop's queue of done-callbacks scheduled with call_soon.  The     *)
(* Deferred is the engine's (graphql.core.defer) and follows section 4.5   *)
(* of the specification; the future follows asyncio.Future.                *)
(***************************************************************************)
MaxDeferreds == 3
MaxFutures   == 2

None    == "None"
Results == {"v1"}
Errors  == {"e1"}

PyObject(v)   == [py |-> "object", v |-> v]
PyDeferred(d) == [py |-> "Deferred", id |-> d]
PyFuture(f)   == [py |-> "Future", id |-> f]
PyCoroutine   == [py |-> "coroutine"]

Pending    == [kind |-> "pending"]
Success(v) == [kind |-> "success", value |-> v]
Failure(e) == [kind |-> "failure", value |-> e]

\* origin is a ghost field: what made the instance, and for what.
Origin(by, of) == [by |-> by, of |-> of]
Deferred(origin) == [result |-> Pending, callbacks |-> <<>>, origin |-> origin]
Future(origin) ==
    [state |-> "PENDING", result |-> None, exception |-> None,
     callbacks |-> <<>>, origin |-> origin]

BridgeState == [d |-> deferreds, f |-> futures, r |-> ready, log |-> fired]
Returned(st, value) == [st |-> st, raised |-> None, value |-> value]
Raised(st, e)       == [st |-> st, raised |-> e, value |-> None]

\* Future.__schedule_callbacks: every done-callback goes to the loop's
\* queue with call_soon, none is run by the caller.
schedule_callbacks(st, f) ==
    [st EXCEPT
        !.r = st.r \o [i \in 1 .. Len(st.f[f].callbacks) |->
                          [handler |-> st.f[f].callbacks[i], future |-> f]],
        !.f[f].callbacks = <<>>]

Future_set_result(st, f, v) ==
    IF st.f[f].state # "PENDING" THEN Raised(st, "InvalidStateError")
    ELSE Returned(schedule_callbacks(
             [st EXCEPT !.f[f].state = "FINISHED", !.f[f].result = v], f), None)

Future_set_exception(st, f, e) ==
    IF st.f[f].state # "PENDING" THEN Raised(st, "InvalidStateError")
    ELSE Returned(schedule_callbacks(
             [st EXCEPT !.f[f].state = "FINISHED", !.f[f].exception = e], f), None)

Future_cancel(st, f) ==
    IF st.f[f].state # "PENDING" THEN Returned(st, FALSE)
    ELSE Returned(schedule_callbacks(
             [st EXCEPT !.f[f].state = "CANCELLED"], f), TRUE)

Future_exception(st, f) ==
    CASE st.f[f].state = "CANCELLED" -> Raised(st, "CancelledError")
      [] st.f[f].state = "PENDING"   -> Raised(st, "InvalidStateError")
      [] OTHER                       -> Returned(st, st.f[f].exception)

Future_result(st, f) ==
    CASE st.f[f].state = "CANCELLED"   -> Raised(st, "CancelledError")
      [] st.f[f].state = "PENDING"     -> Raised(st, "InvalidStateError")
      [] st.f[f].exception # None      -> Raised(st, st.f[f].exception)
      [] OTHER                         -> Returned(st, st.f[f].result)

Future_add_done_callback(st, f, fn) ==
    IF st.f[f].state # "PENDING"
    THEN Returned([st EXCEPT !.r = Append(@, [handler |-> fn, future |-> f])], None)
    ELSE Returned([st EXCEPT !.f[f].callbacks = Append(@, fn)], None)

\* ensure_future: a future is returned as it is, a coroutine is wrapped in
\* a new Task.
ensure_future(st, result) ==
    IF result.py = "Future" THEN Returned(st, result.id)
    ELSE Returned([st EXCEPT !.f = Append(@, Future(Origin("coroutine", 0)))],
                  Len(st.f) + 1)

\* A continuation is the pair (onSuccess, onFailure) given to add_callbacks
\* with the Deferred that add_callbacks returned for it: the bound methods
\* (future.set_result, future.set_exception) of a future, or a pair of
\* observers that return None.
SetFuture(f) == [on |-> "future", future |-> f, probe |-> 0, chained |-> 0]
Probe(k)     == [on |-> "probe", future |-> 0, probe |-> k, chained |-> 0]

run_continuation(st, c, outcome) ==
    CASE c.on = "future" /\ outcome.kind = "success" ->
             Future_set_result(st, c.future, outcome.value)
      [] c.on = "future" /\ outcome.kind = "failure" ->
             Future_set_exception(st, c.future, outcome.value)
      [] OTHER -> Returned(st, None)

RECURSIVE settle(_, _, _)
RECURSIVE fire(_, _, _, _)
RECURSIVE fire_all(_, _, _, _)

\* A variant that fires the continuation registered last first.
fire_all_last_first(st, d, cs, outcome) ==
    IF cs = <<>> THEN st
    ELSE fire_all(fire(st, d, cs[Len(cs)], outcome), d,
                  SubSeq(cs, 1, Len(cs) - 1), outcome)

\* The continuations registered so far fire, the front of the queue first.
fire_all(st, d, cs, outcome) ==
    IF cs = <<>> THEN st
    ELSE fire_all(fire(st, d, Head(cs), outcome), d, Tail(cs), outcome)

\* A continuation fires with the outcome of its Deferred; its own outcome
\* settles the Deferred that add_callbacks returned.
fire(st, d, c, outcome) ==
    LET logged == [st EXCEPT !.log = Append(@, [deferred |-> d,
                                                continuation |-> c,
                                                outcome |-> outcome])]
        r == run_continuation(logged, c, outcome)
    IN  settle(r.st, c.chained,
               IF r.raised = None THEN Success(r.value) ELSE Failure(r.raised))

settle(st, d, outcome) ==
    fire_all([st EXCEPT !.d[d].result = outcome, !.d[d].callbacks = <<>>],
             d, st.d[d].callbacks, outcome)

\* A variant that settles again a Deferred that is settled.
Deferred_start_callbacks_again(st, d, outcome) ==
    Returned(settle(st, d, outcome), None)

Deferred_start_callbacks(st, d, outcome) ==
    IF st.d[d].result.kind # "pending"
    THEN Raised(st, "AlreadyCalledDeferred")
    ELSE Returned(settle(st, d, outcome), None)

Deferred_callback(st, d, v) == Deferred_start_callbacks(st, d, Success(v))
Deferred_errback(st, d, e)  == Deferred_start_callbacks(st, d, Failure(e))

Deferred_add_callbacks(st, d, continuation) ==
    LET n   == Len(st.d) + 1
        c   == [continuation EXCEPT !.chained = n]
        st1 == [st EXCEPT !.d = Append(@, Deferred(Origin("add_callbacks", d)))]
    IN  IF st1.d[d].result.kind = "pending"
        THEN Returned([st1 EXCEPT !.d[d].callbacks = Append(@, c)], n)
        ELSE Returned(fire(st1, d, c, st1.d[d].result), n)

process_future_result(deferred) ==
    [fn |-> "handle_future_result", deferred |-> deferred]

handle_future_result(st, deferred, future) ==
    LET exception == Future_exception(st, future)
    IN  IF exception.raised # None THEN Raised(st, exception.raised)
        ELSE IF exception.value # None
        THEN Deferred_errback(st, deferred, exception.value)
        ELSE LET result == Future_result(st, future)
             IN  IF result.raised # None THEN Raised(st, result.raised)
                 ELSE Deferred_callback(st, deferred, result.value)

\* A variant that calls the done-callback itself when the future is done.
run_resolve_fn_calls_back(st, result) ==
    IF result.py \in {"Future", "coroutine"}
    THEN LET future == ensure_future(st, result)
             d      == Len(future.st.d) + 1
             st1    == [future.st EXCEPT
                           !.d = Append(@, Deferred(Origin("run_resolve_fn",
                                                            future.value)))]
         IN  IF st1.f[future.value].state = "PENDING"
             THEN Returned(Future_add_done_callback(
                               st1, future.value, process_future_result(d)).st,
                           PyDeferred(d))
             ELSE Returned(handle_future_result(st1, d, future.value).st,
                           PyDeferred(d))
    ELSE Returned(st, result)

\* result is what resolver() returned, st the state it left.
run_resolve_fn(st, result) ==
    IF result.py \in {"Future", "coroutine"}
    THEN LET future == ensure_future(st, result)
             d      == Len(future.st.d) + 1
             st1    == [future.st EXCEPT
                           !.d = Append(@, Deferred(Origin("run_resolve_fn",
                                                            future.value)))]
         IN  Returned(Future_add_done_callback(
                          st1, future.value, process_future_result(d)).st,
                      PyDeferred(d))
    ELSE Returned(st, result)

\* A variant without the assertion: whatever the executor returned, a
\* future is returned.
execution_result_unchecked(st, result) ==
    LET future == Len(st.f) + 1
        st1    == [st EXCEPT !.f = Append(@, Future(Origin("execution_result", 0)))]
    IN  IF result.py # "Deferred" THEN Returned(st1, PyFuture(future))
        ELSE Returned(Deferred_add_callbacks(
                          [st EXCEPT !.f = Append(@, Future(Origin("execution_result",
                                                                   result.id)))],
                          result.id, SetFuture(future)).st,
                      PyFuture(future))

\* result is what executor() returned, st the state it left.  The Future
\* made before the executor was called is dropped with the frame when the
\* assertion fails.
execution_result(st, result) ==
    IF result.py # "Deferred" THEN Raised(st, "AssertionError")
    ELSE LET future == Len(st.f) + 1
             st1    == [st EXCEPT !.f = Append(@, Future(Origin("execution_result", result.id)))]
         IN  Returned(Deferred_add_callbacks(st1, result.id,
                                             SetFuture(future)).st,
                      PyFuture(future))

Commit(st) ==
    /\ deferreds' = st.d
    /\ futures' = st.f
    /\ ready' = st.r
    /\ fired' = st.log

\* What a resolver can return: a plain value, None, a Deferred, a future
\* it has just made (pending, or already finished), a future made earlier,
\* or a coroutine.
RunResolveFn ==
    /\ Len(deferreds) < MaxDeferreds
    /\ \E made \in {"nothing", "PENDING", "FINISHED"} :
         LET st == IF made = "nothing" THEN BridgeState
                   ELSE [BridgeState EXCEPT !.f = Append(@,
                            IF made = "PENDING" THEN Future(Origin("resolver", 0))
                            ELSE [Future(Origin("resolver", 0)) EXCEPT
                                     !.state = "FINISHED", !.result = "v1"])]
         IN  /\ Len(st.f) <= MaxFutures
             /\ \E result \in
                    IF made # "nothing" THEN {PyFuture(Len(st.f))}
                    ELSE {PyObject(v) : v \in Results \cup {None}}
                         \cup {PyDeferred(d) : d \in 1 .. Len(deferreds)}
                         \cup {PyFuture(f) : f \in 1 .. Len(futures)}
                         \cup {PyCoroutine} :
                  LET r == run_resolve_fn(st, result)
                  IN  /\ Len(r.st.f) <= MaxFutures
                      /\ Commit(r.st)
                      /\ bres' = [op |-> "run_resolve_fn", calls |-> 1,
                                  result |-> result, raised |-> r.raised,
                                  value |-> r.value]

\* The owner of a resolver's future or the loop running a coroutine's task
\* finishes it.
HostSetResult ==
    \E f \in 1 .. Len(futures), v \in Results :
        /\ futures[f].state = "PENDING"
        /\ futures[f].origin.by \in {"resolver", "coroutine"}
        /\ Commit(Future_set_result(BridgeState, f, v).st)
        /\ bres' = [op |-> "set_result", future |-> f]

HostSetException ==
    \E f \in 1 .. Len(futures), e \in Errors :
        /\ futures[f].state = "PENDING"
        /\ futures[f].origin.by \in {"resolver", "coroutine"}
        /\ Commit(Future_set_exception(BridgeState, f, e).st)
        /\ bres' = [op |-> "set_exception", future |-> f]

\* Whoever holds a future may cancel it.
FutureCancel ==
    \E f \in 1 .. Len(futures) :
        /\ futures[f].state = "PENDING"
        /\ Commit(Future_cancel(BridgeState, f).st)
        /\ bres' = [op |-> "cancel", future |-> f]

\* The event loop runs the done-callback at the head of its queue; an
\* exception a callback raises is logged by the loop and goes no further.
LoopRunOnce ==
    /\ ready # <<>>
    /\ LET handle == Head(ready)
           r == handle_future_result([BridgeState EXCEPT !.r = Tail(@)],
                                     handle.handler.deferred, handle.future)
       IN  /\ Commit(r.st)
           /\ bres' = [op |-> "handle_future_result",
                       deferred |-> handle.handler.deferred,
                       future |-> handle.future, raised |-> r.raised]

\* What an executor can return: a Deferred it has just made, a Deferred
\* made earlier, or something that is no Deferred.
ExecutionResult ==
    \E made \in BOOLEAN :
        LET st == IF made
                  THEN [BridgeState EXCEPT !.d = Append(@, Deferred(Origin("executor", 0)))]
                  ELSE BridgeState
        IN  \E result \in
                IF made THEN {PyDeferred(Len(st.d))}
                ELSE {PyObject("v1"), PyObject(None)}
                     \cup {PyDeferred(d) : d \in 1 .. Len(deferreds)}
                     \cup {PyFuture(f) : f \in 1 .. Len(futures)} :
              LET r == execution_result(st, result)
              IN  /\ Len(r.st.d) <= MaxDeferreds
                  /\ Len(r.st.f) <= MaxFutures
                  /\ Commit(r.st)
                  /\ bres' = [op |-> "execution_result", calls |-> 1,
                              result |-> result, raised |-> r.raised,
                              value |-> IF r.raised = None THEN r.value
                                        ELSE PyNone]

\* The engine settles a Deferred an executor made, or tries to.
DeferredCallback ==
    \E d \in 1 .. Len(deferreds), v \in Results :
        /\ deferreds[d].origin.by = "executor"
        /\ LET r == Deferred_callback(BridgeState, d, v)
           IN  /\ Commit(r.st)
               /\ bres' = [op |-> "callback", deferred |-> d, value |-> v,
                           raised |-> r.raised]

DeferredErrback ==
    \E d \in 1 .. Len(deferreds), e \in Errors :
        /\ deferreds[d].origin.by = "executor"
        /\ LET r == Deferred_errback(BridgeState, d, e)
           IN  /\ Commit(r.st)
               /\ bres' = [op |-> "errback", deferred |-> d, value |-> e,
                           raised |-> r.raised]

\* The engine registers a pair of observers on a Deferred.
AddCallbacks ==
    /\ Len(deferreds) < MaxDeferreds
    /\ \E d \in 1 .. Len(deferreds) :
         LET r == Deferred_add_callbacks(BridgeState, d, Probe(Len(deferreds) + 1))
         IN  /\ Commit(r.st)
             /\ bres' = [op |-> "add_callbacks", deferred |-> d,
                         value |-> r.value]

InitBridge ==
    /\ InitBridgeIdle
    /\ InitTypesIdle /\ InitRegIdle /\ InitFieldsIdle /\ InitSchemaIdle

NextBridge ==
    /\ \/ RunResolveFn
       \/ HostSetResult
       \/ HostSetException
       \/ FutureCancel
       \/ LoopRunOnce
       \/ ExecutionResult
       \/ DeferredCallback
       \/ DeferredErrback
       \/ AddCallbacks
    /\ UNCHANGED <<varsTypes, varsReg, varsFields, varsSchema>>

SpecBridge == InitBridge /\ [][NextBridge]_vars

\* The loop keeps running: a done-callback that is scheduled is run.
SpecBridgeFair == SpecBridge /\ WF_varsBridge(LoopRunOnce)


\* C30: for every Enum and every name it declares, parse_literal of the
\* name, then serialize of what it gave, gives the name back.
C30_SerializeParseLiteral ==
    (rres.op = "parse_literal"
        /\ \E k \in 1 .. Len(heap[rres.self]._values) :
               heap[rres.self]._values[k].name = rres.name)
    => GraphQLEnumType_serialize(heap[rres.self], rres.val) = PyStr(rres.name)

(***************************************************************************)
(* SpecLazy: the construction of the types that have fields, and their    *)
(* get_fields() and get_interfaces().  The types are in ftypes, the       *)
(* Field objects in fobjs, as in SpecFields.                               *)
(***************************************************************************)
MaxLazyTypes == 2

\* a fields= argument: a dict of the Field 3 or an empty dict, given as it
\* is or as a function returning it
LazyFields ==
    {[callable |-> c, shape |-> "dict", items |-> d] :
         c \in BOOLEAN, d \in {<<>>, <<Item(<<"f">>, 3)>>}}

\* an interfaces= argument: None, or a function returning None, an empty
\* list or a dict
LazyInterfaces ==
    {NoProvidedInterfaces}
    \cup {[callable |-> TRUE, shape |-> sh, items |-> <<>>] :
             sh \in {"None", "list", "dict"}}

NewTypeWithFields ==
    /\ Len(ftypes) < MaxLazyTypes
    /\ \E kind \in {"Object", "Interface", "InputObject"}, fields \in LazyFields :
       \E interfaces \in IF kind = "Object" THEN LazyInterfaces
                         ELSE {NoProvidedInterfaces} :
         LET r == GraphQLTypeWithFields(kind, "T" \o ToString(Len(ftypes) + 1),
                                        fields, interfaces)
         IN  /\ ftypes' = IF r.err = NoErr THEN Append(ftypes, r.type) ELSE ftypes
             /\ fres' = [op |-> "construct", kind |-> kind, fields |-> fields,
                         interfaces |-> interfaces, raised |-> r.err # NoErr]
    /\ UNCHANGED <<fobjs, authored>>

\* ftypes[t].get_interfaces()
GetInterfaces ==
    /\ \E t \in 1 .. Len(ftypes) :
         /\ ftypes[t].kind = "Object"
         /\ LET r == get_interfaces(ftypes[t])
            IN  /\ ftypes' = [ftypes EXCEPT ![t] = r.type]
                /\ fres' = [op |-> "get_interfaces", t |-> t, value |-> r.value]
    /\ UNCHANGED <<fobjs, authored>>

InitLazy ==
    /\ ftypes = <<>>
    /\ authored = Authored(NoArgs, SomeInputObjectType)
    /\ fobjs = authored
    /\ fres = [op |-> "none"]
    /\ InitTypesIdle /\ InitRegIdle /\ InitSchemaIdle /\ InitBridgeIdle

NextLazy ==
    /\ \/ NewTypeWithFields
       \/ GetFields
       \/ GetInterfaces
    /\ UNCHANGED <<varsTypes, varsReg, varsSchema, varsBridge>>

SpecLazy == InitLazy /\ [][NextLazy]_vars

(***************************************************************************)
(* Properties of SpecLazy                                                  *)
(***************************************************************************)
\* C28: constructing an Object, an Interface or an InputObject does not
\* invoke its fields producer: the type a construction adds has no field
\* map and its producer has not run; the producer's invocations change
\* only in a get_fields() call on that type, and the first such call
\* invokes it.  A construction that fails adds no type.  The interfaces
\* producer of an Object has been invoked exactly once from the end of its
\* construction on, whatever get_interfaces() and get_fields() calls
\* follow, and the Object's interfaces are resolved.
C28_ProducersAtConstruction ==
    /\ [](\A t \in 1 .. Len(ftypes) :
            /\ ftypes[t].interfaces_calls =
                   IF ftypes[t].kind = "Object"
                      /\ ftypes[t]._provided_interfaces.callable
                   THEN 1 ELSE 0
            /\ ftypes[t].kind = "Object" => ftypes[t]._interfaces.resolved
            /\ ftypes[t].calls > 0 => ftypes[t]._fields.callable)
    /\ [][ /\ fres'.op = "construct" =>
                /\ fobjs' = fobjs
                /\ IF fres'.raised THEN ftypes' = ftypes
                   ELSE /\ Len(ftypes') = Len(ftypes) + 1
                        /\ ftypes'[Len(ftypes')].calls = 0
                        /\ ftypes'[Len(ftypes')].fails = 0
                        /\ ftypes'[Len(ftypes')]._field_map = NoFieldMap
                        /\ ftypes'[Len(ftypes')]._fields = fres'.fields
           /\ \A t \in 1 .. Len(ftypes) :
                /\ ftypes'[t].calls # ftypes[t].calls =>
                       fres'.op = "get_fields" /\ fres'.t = t
                /\ ( /\ fres'.op = "get_fields" /\ fres'.t = t
                     /\ ftypes[t]._fields.callable
                     /\ ftypes[t].fails = 0 /\ ~ftypes[t]._field_map.resolved )
                       => ftypes[t].calls = 0 /\ ftypes'[t].calls = 1 ]_vars

\* get_interfaces() was called on an Object constructed with an interfaces
\* producer and a fields producer, after get_fields() had resolved its
\* fields: each producer has run once.
C28_Witness ==
    /\ fres.op = "get_interfaces"
    /\ ftypes[fres.t]._provided_interfaces.callable
    /\ ftypes[fres.t].interfaces_calls = 1
    /\ ftypes[fres.t]._fields.callable
    /\ ftypes[fres.t]._field_map.resolved
    /\ ftypes[fres.t].calls = 1

(***************************************************************************)
(* Further properties of Spec                                              *)
(***************************************************************************)
\* C26: when the construction of an Object fails, for an empty name, an
\* is_type_of that is no function, interfaces that are no list / tuple, an
\* entry that is no Interface or an Interface that cannot resolve the
\* Object, no Interface's possible-types list is changed and no type is
\* added; when it succeeds, the lists of the Interfaces the Object does
\* not declare are unchanged.
C26_FailedObjectRegistersNowhere ==
    [][ rres'.op = "GraphQLObjectType" =>
          /\ \A i \in 1 .. Len(heap) : heap'[i].kind = heap[i].kind
          /\ \A i \in IdsOfKind(heap, "Interface") :
                 rres'.err # NoErr \/ i \notin Elems(rres'.interfaces.items)
                     => get_possible_types(heap'[i]) = get_possible_types(heap[i])
          /\ rres'.err # NoErr => heap' = heap ]_vars

\* The construction of an Object has failed on its second entry, which is
\* no Interface, after its first entry, an Interface, was validated.
C26_Witness ==
    /\ rres.op = "GraphQLObjectType"
    /\ rres.err.kind = "may only implement Interface types"
    /\ Len(rres.interfaces.items) = 2
    /\ heap[rres.interfaces.items[1]].kind = "Interface"

\* C27: get_possible_types() of an Interface names each Object at most
\* once, whatever lists the Objects declared.
C27_PossibleTypesOnce ==
    \A i \in IdsOfKind(heap, "Interface") :
        LET types == get_possible_types(heap[i])
        IN  \A j, k \in 1 .. Len(types) : j # k => types[j] # types[k]

(***************************************************************************)
(* Properties of SpecBridge                                                *)
(***************************************************************************)
Settled(d) == deferreds[d].result.kind # "pending"

\* C21: a Deferred starts Pending and is settled at most once: a Deferred
\* that the executor or run_resolve_fn makes is pending when the step that
\* made it ends, the outcome of a settled Deferred never changes, a
\* callback / errback on a pending Deferred settles it with the value
\* given, and a callback / errback on a settled Deferred is rejected as a
\* contract violation and changes nothing.
C21_SettledAtMostOnce ==
    [][ /\ \A d \in 1 .. Len(deferreds) :
             /\ d <= Len(deferreds')
             /\ Settled(d) => deferreds'[d].result = deferreds[d].result
        /\ \A d \in Len(deferreds) + 1 .. Len(deferreds') :
             deferreds'[d].origin.by \in {"executor", "run_resolve_fn"}
                 => deferreds'[d].result = Pending
        /\ bres'.op \in {"callback", "errback"} =>
             IF Settled(bres'.deferred)
             THEN /\ bres'.raised = "AlreadyCalledDeferred"
                  /\ UNCHANGED <<deferreds, futures, ready, fired>>
             ELSE /\ bres'.raised = None
                  /\ deferreds'[bres'.deferred].result =
                         IF bres'.op = "callback" THEN Success(bres'.value)
                         ELSE Failure(bres'.value) ]_vars

\* An errback on a Deferred settled with a success has been rejected.
C21_Witness ==
    /\ bres.op = "errback"
    /\ bres.raised = "AlreadyCalledDeferred"
    /\ deferreds[bres.deferred].result = Success("v1")


\* The continuations registered on d, each named by the Deferred that
\* add_callbacks returned for it; these are made in registration order.
Registered(d) ==
    {n \in 1 .. Len(deferreds) : deferreds[n].origin = Origin("add_callbacks", d)}
Firings(n) == {i \in 1 .. Len(fired) : fired[i].continuation.chained = n}

\* C22: every continuation registered with add_callbacks fires exactly
\* once: while its Deferred is pending it has not fired and waits in the
\* queue in registration order; once its Deferred is settled, whether it
\* was registered before or after, it has fired once, with the outcome of
\* its Deferred, and the continuations of one Deferred have fired in
\* registration order.
C22_ContinuationsFireOnce ==
    /\ \A d \in 1 .. Len(deferreds) : \A n \in Registered(d) :
         IF Settled(d)
         THEN /\ Cardinality(Firings(n)) = 1
              /\ \A i \in Firings(n) :
                     /\ fired[i].deferred = d
                     /\ fired[i].outcome = deferreds[d].result
              /\ deferreds[d].callbacks = <<>>
         ELSE /\ Firings(n) = {}
              /\ \E k \in 1 .. Len(deferreds[d].callbacks) :
                     deferreds[d].callbacks[k].chained = n
    /\ \A d \in 1 .. Len(deferreds) :
         \A j, k \in 1 .. Len(deferreds[d].callbacks) :
             j < k => deferreds[d].callbacks[j].chained
                          < deferreds[d].callbacks[k].chained
    /\ \A i, j \in 1 .. Len(fired) :
         /\ fired[i].continuation.chained \in Registered(fired[i].deferred)
         /\ i < j /\ fired[i].deferred = fired[j].deferred
                => fired[i].continuation.chained < fired[j].continuation.chained

\* A callback has settled a Deferred with two continuations in its queue.
C22_Witness ==
    /\ bres.op = "callback" /\ bres.raised = None
    /\ Len(fired) = 2
    /\ fired[1].deferred = bres.deferred /\ fired[2].deferred = bres.deferred


\* C23: run_resolve_fn calls the resolver once.  A result that is neither
\* a future nor a coroutine (a plain value, None, a Deferred) is returned
\* as it is and no Deferred is made.  For a future or a coroutine the call
\* returns a Deferred that did not exist before and is pending, with no
\* continuation, when the call returns, whether or not the future is done;
\* no Deferred is settled and no continuation fires during the call.
C23_RunResolveFn ==
    [][ bres'.op = "run_resolve_fn" =>
          /\ bres'.calls = 1
          /\ bres'.raised = None
          /\ fired' = fired
          /\ \A d \in 1 .. Len(deferreds) : deferreds'[d] = deferreds[d]
          /\ IF bres'.result.py \in {"Future", "coroutine"}
             THEN /\ Len(deferreds') = Len(deferreds) + 1
                  /\ bres'.value = PyDeferred(Len(deferreds'))
                  /\ deferreds'[Len(deferreds')].result = Pending
                  /\ deferreds'[Len(deferreds')].callbacks = <<>>
             ELSE /\ bres'.value = bres'.result
                  /\ deferreds' = deferreds
                  /\ futures' = futures /\ ready' = ready ]_vars

\* run_resolve_fn has returned a pending Deferred for a future that was
\* finished when the resolver returned it.
C23_Witness ==
    /\ bres.op = "run_resolve_fn"
    /\ bres.result.py = "Future"
    /\ futures[bres.result.id].state = "FINISHED"
    /\ bres.value.py = "Deferred"
    /\ deferreds[bres.value.id].result = Pending
    /\ ready # <<>>


\* d is a Deferred that run_resolve_fn returned; HostOf(d) is the future
\* of its host computation.
Bridged(d) ==
    d <= Len(deferreds) /\ deferreds[d].origin.by = "run_resolve_fn"
HostOf(d) == futures[deferreds[d].origin.of]
HostPending(d) == Bridged(d) /\ HostOf(d).state = "PENDING"
HostDone(d)    == Bridged(d) /\ HostOf(d).state # "PENDING"
Delivered(d) ==
    /\ Bridged(d)
    /\ Settled(d)
    /\ HostOf(d).state = "FINISHED" =>
           deferreds[d].result = IF HostOf(d).exception # None
                                 THEN Failure(HostOf(d).exception)
                                 ELSE Success(HostOf(d).result)

\* C24: for every Deferred that run_resolve_fn returned for a pending host
\* computation, once the host computation is done, however it finished,
\* the Deferred is eventually settled: with the success v when the
\* computation produced v, with the failure e when it raised e.
C24_OutcomeIsDelivered ==
    \A d \in 1 .. MaxDeferreds :
        [](HostPending(d) => [](HostDone(d) => <>Delivered(d)))


\* The futures execution_result returned, and for each the firings of the
\* continuation (future.set_result, future.set_exception).
ResultFutures ==
    {f \in 1 .. Len(futures) : futures[f].origin.by = "execution_result"}
Received(f) ==
    {i \in 1 .. Len(fired) : fired[i].continuation.on = "future"
                                /\ fired[i].continuation.future = f}

\* C25: execution_result calls the executor once.  When the executor
\* returns a Deferred the call returns a future made by the call; while
\* that Deferred is pending the future has received neither set_result nor
\* set_exception and holds no outcome; once the Deferred is settled the
\* future has received exactly one call, set_result(v) for the success v
\* and set_exception(e) for the failure e, and holds that outcome unless
\* its holder cancelled it before; a future that holds an outcome keeps
\* it.  When the executor returns anything else the call fails with an
\* assertion, returns no future and leaves no future behind.
C25_ExecutionResult ==
    /\ [](\A f \in ResultFutures :
            LET d == futures[f].origin.of
            IN  /\ d \in 1 .. Len(deferreds)
                /\ IF ~Settled(d)
                   THEN /\ Received(f) = {}
                        /\ futures[f].state # "FINISHED"
                   ELSE /\ Cardinality(Received(f)) = 1
                        /\ \A i \in Received(f) :
                               /\ fired[i].deferred = d
                               /\ fired[i].outcome = deferreds[d].result
                        /\ futures[f].state \in {"FINISHED", "CANCELLED"}
                        /\ futures[f].state = "FINISHED" =>
                               IF deferreds[d].result.kind = "success"
                               THEN /\ futures[f].result = deferreds[d].result.value
                                    /\ futures[f].exception = None
                               ELSE /\ futures[f].exception = deferreds[d].result.value
                                    /\ futures[f].result = None)
    /\ [][ /\ \A f \in 1 .. Len(futures) :
                futures[f].state # "PENDING" =>
                    /\ futures'[f].state = futures[f].state
                    /\ futures'[f].result = futures[f].result
                    /\ futures'[f].exception = futures[f].exception
           /\ bres'.op = "execution_result" =>
                /\ bres'.calls = 1
                /\ IF bres'.result.py = "Deferred"
                   THEN /\ bres'.raised = None
                        /\ Len(futures') = Len(futures) + 1
                        /\ bres'.value = PyFuture(Len(futures'))
                        /\ futures'[Len(futures')].origin =
                               Origin("execution_result", bres'.result.id)
                   ELSE /\ bres'.raised = "AssertionError"
                        /\ bres'.value = PyNone
                        /\ UNCHANGED <<deferreds, futures, ready, fired>> ]_vars

\* The engine has settled with a failure the Deferred of an executor, and
\* the future execution_result returned holds the exception.
C25_Witness ==
    /\ bres.op = "errback" /\ bres.raised = None
    /\ \E f \in ResultFutures :
         /\ futures[f].origin.of = bres.deferred
         /\ futures[f].state = "FINISHED"
         /\ futures[f].exception = "e1"

====
